---- MODULE Spec2Model ----
(***************************************************************************)
(* devenv: a local developer-environment manager.                          *)
(*                                                                         *)
(* The module models                                                       *)
(*   - the registry (src/src/registry.rs): a name -> project path map kept *)
(*     in one JSON file that every call loads, changes in memory and       *)
(*     rewrites;                                                           *)
(*   - the commands of src/src/main.rs (init, start, stop, remove,       *)
(*     restart, build) over the container runtime functions of             *)
(*     src/src/docker.rs (the docker CLI) and src/src/docker/mod.rs (the   *)
(*     runtime's API);                                                     *)
(*   - the project's Dockerfile and its rendering by generate_dockerfile;  *)
(*   - the interactive exec of src/src/docker/mod.rs with its raw-mode     *)
(*     guard, its two I/O pumps and its resize watcher.                    *)
(*                                                                         *)
(* Spec           : sequential calls of the registry's three functions.    *)
(* SpecLifecycle  : one CLI command at a time, one step per call into the  *)
(*                  container runtime.                                     *)
(* SpecRestart    : devenv restart.                                        *)
(* SpecProvision  : devenv start with its provisioning.                    *)
(* SpecExec       : exec_shell and exec_shell_as.                          *)
(* SpecBuild      : build_with_opts over the runtime's event stream.       *)
(* SpecDockerfile : init, build and start over the Dockerfile on disk.     *)
(* SpecRender     : generate_dockerfile over the configs.                  *)
(* SpecAttach     : exec_interactive_shell.                                *)
(* SpecRace       : two processes calling the registry at once, one step   *)
(*                  per read and per half of a write of the file.          *)
(* SpecAttachCmd  : devenv attach, from its state queries to the shell.    *)
(***************************************************************************)
EXTENDS Integers, Sequences, FiniteSets, TLC

VARIABLES
    file,        \* the content of registry.json
    bound,       \* history: name -> {path} of its last successful register_env
                 \* since the last unregister_env(name), {} when there is none
    removed,     \* history: names whose last registry change was an
                 \* unregister_env that returned true
    last,        \* history: the last registry call and what it returned
    prevFile,    \* history: the file before the last registry call
    config,      \* the project's devenv.toml: {} when there is none, else {cfg}
    backend,     \* which docker module main.rs is linked with
    docker,      \* container name -> Absent / Stopped / Running
    cmd,         \* the CLI command being run and its arguments
    pc,          \* position of the running command
    locals,      \* the running command's local variables
    calls,       \* calls into the docker module made by the running command
    result,      \* what the last finished command returned
    start0,      \* history: docker as it was when the command began
    dockerfile,  \* the project's Dockerfile on disk
    terminal,    \* the mode of the local terminal: cooked or raw
    session      \* the interactive exec in progress: streams, pumps, watcher

vars == <<file, bound, removed, last, prevFile,
          config, backend, docker, cmd, pc, locals, calls, result, start0,
          dockerfile, terminal, session>>

regVars == <<file, bound, removed, last, prevFile>>
hostVars == <<dockerfile, terminal, session>>
cliVars == <<config, backend, docker, cmd, pc, locals, calls, result, start0,
             hostVars>>

---------------------------------------------------------------------------
(* Bounds *)

NumNames == 2
NumPaths == 2
MaxCommands == 2
MaxEvents == 2
MaxPackages == 2
MaxRenders == 2
MaxItems == 2
MaxResizes == 2

Names == 1 .. NumNames
Paths == 1 .. NumPaths

---------------------------------------------------------------------------
(* The registry file.                                                      *)
(*                                                                         *)
(* A file is [kind, entries].  kind "missing": there is no file.  kind     *)
(* "unreadable": the file is there and fs::read_to_string fails on it (its *)
(* bytes are not UTF-8).  kind "garbage": text that is no JSON of a        *)
(* Registry.  kind "text": the JSON of a Registry, entries being the       *)
(* members of its "envs" object in the order they are written.             *)

FileMissing    == [kind |-> "missing",    entries |-> <<>>]
FileUnreadable == [kind |-> "unreadable", entries |-> <<>>]
FileGarbage    == [kind |-> "garbage",    entries |-> <<>>]
FileText(es)   == [kind |-> "text",       entries |-> es]

(* The file as fs::write leaves it between opening it, which empties it,  *)
(* and writing the new content.                                           *)
FileTruncated  == [kind |-> "truncated",  entries |-> <<>>]

(* Registry::default(): an empty BTreeMap.  A map is a function whose      *)
(* domain is the set of its keys.                                          *)
EmptyRegistry == [n \in {} |-> 0]

MapGet(m, name) == IF name \in DOMAIN m THEN {m[name]} ELSE {}

MapInsert(m, name, path) ==
    [n \in DOMAIN m \cup {name} |-> IF n = name THEN path ELSE m[n]]

MapRemove(m, name) == [n \in DOMAIN m \ {name} |-> m[n]]

(* A parser that stops after the first member of "envs". *)
FromEntries_first(es, m) ==
    IF es = <<>> THEN m ELSE MapInsert(m, Head(es)[1], Head(es)[2])

(* serde_json::from_str on the members of "envs": each member is inserted  *)
(* in turn, a repeated key keeps its last value.                           *)
RECURSIVE FromEntries(_, _)
FromEntries(es, m) ==
    IF es = <<>> THEN m
    ELSE FromEntries(Tail(es), MapInsert(m, Head(es)[1], Head(es)[2]))

(* serde_json::to_string_pretty on a BTreeMap: one member per key, in key  *)
(* order.                                                                  *)
RECURSIVE ToEntries(_, _)
ToEntries(m, k) ==
    IF k > NumNames THEN <<>>
    ELSE (IF k \in DOMAIN m THEN << <<k, m[k]>> >> ELSE <<>>) \o ToEntries(m, k + 1)

(* load_registry: [ok, reg].  Any failure of read_to_string gives the      *)
(* default registry; text that does not parse is an error.                 *)
load_registry(f) ==
    IF f.kind = "text" THEN [ok |-> TRUE, reg |-> FromEntries(f.entries, EmptyRegistry)]
    ELSE IF f.kind \in {"garbage", "truncated"} THEN [ok |-> FALSE, reg |-> EmptyRegistry]
    ELSE [ok |-> TRUE, reg |-> EmptyRegistry]

(* save_registry: the file becomes the JSON of reg. *)
save_registry(reg) == FileText(ToEntries(reg, 1))

(* register_env inserting and saving before it looks for a conflict. *)
register_env_insert_first(f, name, path) ==
    LET l == load_registry(f) IN
    IF ~l.ok THEN [file |-> f, res |-> "Corrupt", wrote |-> FALSE]
    ELSE IF MapGet(l.reg, name) # {} /\ MapGet(l.reg, name) # {path}
    THEN [file |-> save_registry(MapInsert(l.reg, name, path)),
          res |-> "Conflict", wrote |-> TRUE]
    ELSE [file |-> save_registry(MapInsert(l.reg, name, path)),
          res |-> "Ok", wrote |-> TRUE]

(* register_env refusing every name that is already there. *)
register_env_strict(f, name, path) ==
    LET l == load_registry(f) IN
    IF ~l.ok THEN [file |-> f, res |-> "Corrupt", wrote |-> FALSE]
    ELSE IF MapGet(l.reg, name) # {}
    THEN [file |-> f, res |-> "Conflict", wrote |-> FALSE]
    ELSE [file |-> save_registry(MapInsert(l.reg, name, path)),
          res |-> "Ok", wrote |-> TRUE]

(* register_env without the conflict check. *)
register_env_overwrite(f, name, path) ==
    LET l == load_registry(f) IN
    IF ~l.ok THEN [file |-> f, res |-> "Corrupt", wrote |-> FALSE]
    ELSE [file |-> save_registry(MapInsert(l.reg, name, path)),
          res |-> "Ok", wrote |-> TRUE]

(* register_env: [file, res, wrote] *)
register_env(f, name, path) ==
    LET l == load_registry(f) IN
    IF ~l.ok THEN [file |-> f, res |-> "Corrupt", wrote |-> FALSE]
    ELSE IF MapGet(l.reg, name) # {} /\ MapGet(l.reg, name) # {path}
    THEN [file |-> f, res |-> "Conflict", wrote |-> FALSE]
    ELSE [file |-> save_registry(MapInsert(l.reg, name, path)),
          res |-> "Ok", wrote |-> TRUE]

(* lookup_env: [res, path], path being {p} when res is "Ok" *)
lookup_env(f, name) ==
    LET l == load_registry(f) IN
    IF ~l.ok THEN [res |-> "Corrupt", path |-> {}]
    ELSE IF MapGet(l.reg, name) = {} THEN [res |-> "NotFound", path |-> {}]
    ELSE [res |-> "Ok", path |-> MapGet(l.reg, name)]

(* unregister_env that forgets to save. *)
unregister_env_nosave(f, name) ==
    LET l == load_registry(f) IN
    IF ~l.ok THEN [file |-> f, res |-> "Corrupt", removed |-> FALSE, wrote |-> FALSE]
    ELSE [file |-> f, res |-> "Ok", removed |-> name \in DOMAIN l.reg, wrote |-> FALSE]

(* unregister_env that saves whether or not it removed anything. *)
unregister_env_always_save(f, name) ==
    LET l == load_registry(f) IN
    IF ~l.ok THEN [file |-> f, res |-> "Corrupt", removed |-> FALSE, wrote |-> FALSE]
    ELSE [file |-> save_registry(MapRemove(l.reg, name)),
          res |-> "Ok", removed |-> name \in DOMAIN l.reg, wrote |-> TRUE]

(* unregister_env: [file, res, removed, wrote] *)
unregister_env(f, name) ==
    LET l == load_registry(f) IN
    IF ~l.ok THEN [file |-> f, res |-> "Corrupt", removed |-> FALSE, wrote |-> FALSE]
    ELSE IF name \in DOMAIN l.reg
    THEN [file |-> save_registry(MapRemove(l.reg, name)),
          res |-> "Ok", removed |-> TRUE, wrote |-> TRUE]
    ELSE [file |-> f, res |-> "Ok", removed |-> FALSE, wrote |-> FALSE]

---------------------------------------------------------------------------
(* Sequential calls of the registry *)

NoCall == [op |-> "none", name |-> 1, path |-> {}, res |-> "Ok",
           ret |-> {}, wrote |-> FALSE, was |-> {}, wasRemoved |-> FALSE]

(* The attached session of an interactive exec: whether the pump of the   *)
(* remote output and the pump of the local stdin run, what they have met, *)
(* whether the resize watcher runs, how many resizes it has forwarded,    *)
(* and whether one was forwarded after the session ended.  Here no        *)
(* interactive exec has attached.  received holds the bytes the remote    *)
(* output has delivered and stdout the bytes written to the local stdout. *)
(* size is the size of the local terminal window and changes how often it *)
(* has changed; winch tells that a window-change signal waits for the     *)
(* watcher, notified counts the signals that reached it, last is the size *)
(* the polling watcher sent last, and events are the resize events sent   *)
(* to the remote side, each with its size and its sender.                 *)
NoSession == [state |-> "none", out |-> "none", inp |-> "none",
              items |-> 0, reads |-> 0, out_err |-> FALSE, in_err |-> FALSE,
              closed |-> FALSE, eof |-> FALSE, received |-> <<>>, stdout |-> <<>>,
              watcher |-> "none", resizes |-> 0, late |-> FALSE,
              size |-> 1, changes |-> 0, winch |-> FALSE, notified |-> 0,
              last |-> 0, events |-> <<>>]

CliIdle ==
    /\ config = {}
    /\ backend = "cli"
    /\ docker = <<>>
    /\ cmd = <<>>
    /\ pc = "idle"
    /\ locals = <<>>
    /\ calls = <<>>
    /\ result = "none"
    /\ start0 = <<>>
    /\ dockerfile = "missing"
    /\ terminal = "cooked"
    /\ session = NoSession

Init ==
    /\ file \in {FileMissing, FileUnreadable, FileGarbage}
    /\ bound = [n \in Names |-> {}]
    /\ removed = {}
    /\ last = NoCall
    /\ prevFile = file
    /\ CliIdle

RegisterEnv ==
    \E name \in Names, path \in Paths :
        LET r == register_env(file, name, path) IN
        /\ file' = r.file
        /\ prevFile' = file
        /\ last' = [op |-> "register", name |-> name, path |-> {path}, res |-> r.res,
                    ret |-> {}, wrote |-> r.wrote,
                    was |-> bound[name], wasRemoved |-> name \in removed]
        /\ bound' = IF r.res = "Ok" THEN [bound EXCEPT ![name] = {path}] ELSE bound
        /\ removed' = IF r.res = "Ok" THEN removed \ {name} ELSE removed
        /\ UNCHANGED cliVars

LookupEnv ==
    \E name \in Names :
        LET r == lookup_env(file, name) IN
        /\ prevFile' = file
        /\ last' = [op |-> "lookup", name |-> name, path |-> {}, res |-> r.res,
                    ret |-> r.path, wrote |-> FALSE,
                    was |-> bound[name], wasRemoved |-> name \in removed]
        /\ UNCHANGED <<file, bound, removed>>
        /\ UNCHANGED cliVars

UnregisterEnv ==
    \E name \in Names :
        LET r == unregister_env(file, name) IN
        /\ file' = r.file
        /\ prevFile' = file
        /\ last' = [op |-> "unregister", name |-> name, path |-> {}, res |-> r.res,
                    ret |-> {r.removed}, wrote |-> r.wrote,
                    was |-> bound[name], wasRemoved |-> name \in removed]
        /\ bound' = [bound EXCEPT ![name] = {}]
        /\ removed' = IF r.res = "Ok" /\ r.removed THEN removed \cup {name}
                      ELSE removed
        /\ UNCHANGED cliVars

Next == RegisterEnv \/ LookupEnv \/ UnregisterEnv

Spec == Init /\ [][Next]_vars

---------------------------------------------------------------------------
(* The container runtime, as the docker module sees it.                    *)
(*                                                                         *)
(* A call into the runtime ends "ok" or "fail".  A state query made with   *)
(* the docker CLI can fail in two ways that the code tells apart: "fail"   *)
(* (`docker ps` ran and exited with a failure) and "nospawn" (the docker   *)
(* command could not be run at all).  docker_run_detached on an absent     *)
(* container can also end "created": the container was created and its    *)
(* start failed.                                                           *)

ContainerName(n) == <<"devenv-", n>>
ContainerNames == {ContainerName(n) : n \in Names}
NoContainer == <<>>

States == {"Absent", "Stopped", "Running"}

Queries == {"container_exists", "is_container_running"}

(* Whether the runtime can carry the call out on a container in state s:   *)
(* it starts and stops only a container that exists, creates one only      *)
(* under a free name, removes a running one only when forced, and runs a   *)
(* command only in a running one.                                          *)
CanSucceed(fn, s, force) ==
    CASE fn = "start"        -> s # "Absent"
      [] fn = "stop"         -> s # "Absent"
      [] fn = "remove"       -> s = "Stopped" \/ (s = "Running" /\ force)
      [] fn = "run_detached" -> s = "Absent"
      [] fn \in {"exec_shell", "exec_shell_as", "exec_interactive_shell"}
                             -> s = "Running"
      [] OTHER               -> TRUE

Outcomes(fn, s, force) ==
    (IF CanSucceed(fn, s, force) THEN {"ok"} ELSE {})
        \cup {"fail"}
        \cup (IF backend = "cli" /\ fn \in Queries THEN {"nospawn"} ELSE {})
        \cup (IF fn = "run_detached" /\ s = "Absent" THEN {"created"} ELSE {})

(* The state of the container after the call. *)
After(fn, s, outcome) ==
    IF outcome = "ok" THEN
        CASE fn \in {"start", "run_detached"} -> "Running"
          [] fn = "stop"                      -> "Stopped"
          [] fn = "remove"                    -> "Absent"
          [] OTHER                            -> s
    ELSE IF outcome = "created" THEN "Stopped"
    ELSE s

(* container_exists and is_container_running: [err, val].  The docker CLI  *)
(* variant answers false when `docker ps` exits with a failure; the API    *)
(* variant returns the error.                                              *)
QueryResult(outcome, truth) ==
    IF outcome = "ok" THEN [err |-> FALSE, val |-> truth]
    ELSE IF backend = "cli" /\ outcome = "fail" THEN [err |-> FALSE, val |-> FALSE]
    ELSE [err |-> TRUE, val |-> FALSE]

container_exists(c, outcome) == QueryResult(outcome, docker[c] # "Absent")

is_container_running(c, outcome) == QueryResult(outcome, docker[c] = "Running")

(* One entry of the log of calls a command has made.  `script` is the     *)
(* position in provision.commands of the command an exec runs, 0 for any  *)
(* other call.                                                            *)
Call(fn, target, outcome, arg) ==
    [fn |-> fn, target |-> target, outcome |-> outcome, arg |-> arg, script |-> 0]

ProvisionCall(fn, target, outcome, arg, i) ==
    [fn |-> fn, target |-> target, outcome |-> outcome, arg |-> arg, script |-> i]

(* docker_remove_container adds -f to `docker rm` only when force is set. *)
ForceArg(force) == IF force THEN "-f" ELSE "none"

---------------------------------------------------------------------------
(* The CLI commands *)

NameArgs == {{}} \cup {{n} : n \in Names}

Users == {"none", "root", "dev"}

Config(name, ncmds, zed, user_name, ssh_user, as_non_root) ==
    [name |-> name, ncmds |-> ncmds, zed |-> zed, user_name |-> user_name,
     ssh_user |-> ssh_user, provision_as_non_root |-> as_non_root]

NoConfig == Config(1, 0, FALSE, "none", "none", FALSE)

(* dockerfile0 is the Dockerfile as the command found it, wrote whether   *)
(* the command wrote it and warned whether it warned that the Dockerfile  *)
(* is out of sync.                                                        *)
NoLocals == [env |-> {}, container |-> NoContainer, cfg |-> NoConfig, i |-> 0,
             dockerfile0 |-> "none", wrote |-> FALSE, warned |-> FALSE]

Return(res) ==
    /\ pc' = "done"
    /\ result' = res

(* resolve_env_from_name_or_cwd: [ok, cfg].  With a name the project path  *)
(* comes from the registry, without one it is the working directory; the   *)
(* project's devenv.toml is then read.                                     *)
resolve_env_from_name_or_cwd(name) ==
    IF name # {} /\ \E n \in name : lookup_env(file, n).res # "Ok"
    THEN [ok |-> FALSE, cfg |-> NoConfig]
    ELSE IF config = {} THEN [ok |-> FALSE, cfg |-> NoConfig]
    ELSE [ok |-> TRUE, cfg |-> CHOOSE c \in config : TRUE]

(* The name the command runs under when it takes it from its argument and  *)
(* reads the config only without one (cmd_stop): [ok, name]                *)
effective_name(name) ==
    IF name # {} THEN [ok |-> TRUE, name |-> name]
    ELSE LET r == resolve_env_from_name_or_cwd({}) IN
         [ok |-> r.ok, name |-> IF r.ok THEN {r.cfg.name} ELSE {}]

Target(nameSet) == ContainerName(CHOOSE n \in nameSet : TRUE)

(* ---- the project's Dockerfile ---- *)

(* The Dockerfile on disk, by its content: none, what generate_dockerfile *)
(* renders from devenv.toml, other text, or bytes that do not read as a   *)
(* string.                                                                *)
DockerfileStates == {"missing", "expected", "edited", "unreadable"}

(* dockerfile_path.exists() *)
Exists(df) == df # "missing"

(* fs::read_to_string(..).unwrap_or_default() != dockerfile_expected *)
Differs(df) == df \in {"edited", "unreadable"}

(* fs::write(&dockerfile_path, &dockerfile_expected)? *)
WriteDockerfile(df, write_ok) ==
    IF write_ok
    THEN [file |-> "expected", wrote |-> TRUE, warned |-> FALSE, ok |-> TRUE]
    ELSE [file |-> df, wrote |-> FALSE, warned |-> FALSE, ok |-> FALSE]

KeepDockerfile(df, warn) ==
    [file |-> df, wrote |-> FALSE, warned |-> warn, ok |-> TRUE]

(* cmd_start that regenerates a Dockerfile that is out of sync. *)
start_dockerfile_sync(df, rebuild, write_ok) ==
    IF rebuild \/ ~Exists(df) \/ Differs(df) THEN WriteDockerfile(df, write_ok)
    ELSE KeepDockerfile(df, FALSE)

(* The Dockerfile step of cmd_start: [file, wrote, warned, ok] *)
start_dockerfile(df, rebuild, write_ok) ==
    IF rebuild THEN WriteDockerfile(df, write_ok)
    ELSE IF Exists(df) THEN KeepDockerfile(df, Differs(df))
    ELSE WriteDockerfile(df, write_ok)

(* The Dockerfile step of cmd_build *)
build_dockerfile(df, rebuild, write_ok) ==
    IF rebuild \/ ~Exists(df) THEN WriteDockerfile(df, write_ok)
    ELSE KeepDockerfile(df, Differs(df))

(* The Dockerfile step of cmd_init *)
init_dockerfile(df, write_ok) ==
    IF ~Exists(df) THEN WriteDockerfile(df, write_ok)
    ELSE KeepDockerfile(df, FALSE)

(* ---- generate_dockerfile ---- *)

Images == {"debian:bookworm-slim", "alpine:3"}

PackageNames == {"git", "make"}

(* The lists of at most n different packages. *)
Listed(l) == {l[k] : k \in DOMAIN l}

RECURSIVE PackageLists(_)
PackageLists(n) ==
    IF n = 0 THEN {<<>>}
    ELSE LET shorter == PackageLists(n - 1) IN
         shorter \cup UNION {{Append(l, p) : p \in PackageNames \ Listed(l)} :
                                 l \in {s \in shorter : Len(s) = n - 1}}

UserIds == {{}, {"1001"}}

(* The fields of the config that generate_dockerfile reads; user_uid and   *)
(* user_gid hold at most one number, in decimal digits.                    *)
DevEnvs ==
    [image : Images, packages : PackageLists(MaxPackages), user_name : Users,
     ssh_user : Users, user_uid : UserIds, user_gid : UserIds]

DefaultUid == "1000"

(* Option::unwrap_or *)
UnwrapOr(opt, default) == IF opt = {} THEN default ELSE CHOOSE x \in opt : TRUE

(* [T]::join: the items with sep between them, as one run of text pieces. *)
RECURSIVE Join(_, _)
Join(items, sep) ==
    IF items = <<>> THEN <<>>
    ELSE IF Len(items) = 1 THEN items[1]
    ELSE items[1] \o <<sep>> \o Join(Tail(items), sep)

RECURSIVE Pieces(_)
Pieces(words) ==
    IF words = <<>> THEN <<>> ELSE << <<words[1]>> >> \o Pieces(Tail(words))

InstallPrefix ==
    "(command -v apt-get >/dev/null 2>&1 && apt-get update && apt-get install -y "

(* The user the image is made for: user_name, else zed_remote.ssh_user. *)
DockerfileUser(dev) == IF dev.user_name # "none" THEN dev.user_name ELSE dev.ssh_user

HeaderLines(dev) ==
    << <<"# Generated by devenv. Do not edit manually.">>,
       <<"# Edit devenv.toml and use 'devenv start --rebuild' instead.">>,
       <<"FROM ", dev.image>>,
       <<"\n", "# Common utilities">>,
       <<"RUN mkdir -p /workspace && \\">>,
       <<"    ", InstallPrefix, "curl ca-certificates git sudo", ") || true">> >>

(* One install directive for each package. *)
PackageLines_each(dev) ==
    [i \in 1 .. Len(dev.packages) |->
        <<"RUN ", InstallPrefix, dev.packages[i], ") || true">>]

PackageLines(dev) ==
    IF dev.packages # <<>>
    THEN << <<"RUN ", InstallPrefix>> \o Join(Pieces(dev.packages), " ")
                \o <<") || true">> >>
    ELSE <<>>

UserLines(dev) ==
    LET user == DockerfileUser(dev) IN
    IF user # "none" /\ user # "root"
    THEN LET uid == UnwrapOr(dev.user_uid, DefaultUid)
             gid == UnwrapOr(dev.user_gid, uid) IN
         << <<"RUN (getent group ", gid, " || groupadd -g ", gid, " ", user,
              ") || true">>,
            <<"RUN (id -u ", user, " >/dev/null 2>&1 || useradd -m -u ", uid,
              " -g ", gid, " -s /bin/bash ", user, ") || true">>,
            <<"RUN mkdir -p /home/", user, "/.ssh && chown -R ", user, ":", user,
              " /home/", user>> >>
    ELSE <<>>

FooterLines ==
    << <<"RUN mkdir -p /root/.ssh && chmod 700 /root/.ssh">>,
       <<"WORKDIR /workspace">>,
       <<"CMD [\"/bin/sh\", \"-lc\", \"tail -f /dev/null\"]">> >>

(* generate_dockerfile that leaves the header out when the project already *)
(* has a Dockerfile.                                                       *)
generate_dockerfile_fresh(dev) ==
    Join((IF dockerfile = "missing" THEN HeaderLines(dev) ELSE SubSeq(HeaderLines(dev), 3, 6))
             \o PackageLines(dev) \o UserLines(dev) \o FooterLines, "\n")

(* generate_dockerfile: the text, as the run of its pieces. *)
generate_dockerfile(dev) ==
    Join(HeaderLines(dev) \o PackageLines(dev) \o UserLines(dev) \o FooterLines, "\n")

(* ---- cmd_start ---- *)

BeginStart ==
    /\ pc = "idle"
    /\ \E name \in NameArgs, no_build, open, attach \in BOOLEAN :
        cmd' = [op |-> "start", name |-> name, no_build |-> no_build,
                open |-> open, attach |-> attach, rebuild |-> FALSE]
    /\ pc' = "start_resolve"
    /\ locals' = NoLocals
    /\ calls' = <<>>
    /\ result' = "none"
    /\ start0' = docker
    /\ UNCHANGED <<regVars, hostVars, config, backend, docker>>

(* Where cmd_start goes once it knows whether the container runs. *)
StartAfterRunningQuery_ignore(running) == "start_exists"

StartAfterRunningQuery(running) == IF running THEN "done" ELSE "start_exists"

(* Where cmd_start goes once it knows whether the container exists. *)
StartAfterExistsQuery_swapped(exists) == IF exists THEN "start_run" ELSE "start_start"

StartAfterExistsQuery(exists) == IF exists THEN "start_start" ELSE "start_run"

StartResolve ==
    /\ pc = "start_resolve"
    /\ LET r == resolve_env_from_name_or_cwd(cmd.name) IN
       IF ~r.ok THEN Return("Err") /\ UNCHANGED locals
       ELSE /\ locals' = [locals EXCEPT !.env = {r.cfg.name},
                                        !.container = ContainerName(r.cfg.name),
                                        !.cfg = r.cfg]
            /\ pc' = "start_dockerfile"
            /\ UNCHANGED result
    /\ UNCHANGED <<regVars, hostVars, config, backend, docker, cmd, calls, start0>>

(* Where cmd_start goes once the Dockerfile is in place: the image build  *)
(* unless --no-build was given.                                           *)
StartAfterDockerfile(no_build) == IF no_build THEN "start_running" ELSE "start_build"

(* Where cmd_start goes after docker_build: an error is returned by `?`. *)
StartAfterBuild_goon(outcome) == "start_running"

StartAfterBuild(outcome) == IF outcome = "ok" THEN "start_running" ELSE "done"

(* The Dockerfile of cmd_start: written with --rebuild or when there is   *)
(* none, else compared with the rendered one.                             *)
StartDockerfile ==
    /\ pc = "start_dockerfile"
    /\ \E write_ok \in BOOLEAN :
        LET r == start_dockerfile(dockerfile, cmd.rebuild, write_ok) IN
        /\ dockerfile' = r.file
        /\ locals' = [locals EXCEPT !.dockerfile0 = dockerfile,
                                    !.wrote = r.wrote, !.warned = r.warned]
        /\ IF r.ok
           THEN /\ pc' = StartAfterDockerfile(cmd.no_build)
                /\ UNCHANGED result
           ELSE Return("Err")
    /\ UNCHANGED <<regVars, terminal, session, config, backend, docker, cmd, calls,
                   start0>>

StartBuild ==
    /\ pc = "start_build"
    /\ \E o \in Outcomes("build", docker[locals.container], FALSE) :
        /\ calls' = Append(calls, Call("build", locals.container, o, "none"))
        /\ IF StartAfterBuild(o) = "done" THEN Return("Err")
           ELSE pc' = StartAfterBuild(o) /\ UNCHANGED result
    /\ UNCHANGED <<regVars, hostVars, config, backend, docker, cmd, locals, start0>>

StartQueryRunning ==
    /\ pc = "start_running"
    /\ \E o \in Outcomes("is_container_running", docker[locals.container], FALSE) :
        LET q == is_container_running(locals.container, o) IN
        /\ calls' = Append(calls, Call("is_container_running", locals.container, o, "none"))
        /\ IF q.err THEN Return("Err")
           ELSE IF StartAfterRunningQuery(q.val) = "done" THEN Return("Ok")
           ELSE pc' = StartAfterRunningQuery(q.val) /\ UNCHANGED result
    /\ UNCHANGED <<regVars, hostVars, config, backend, docker, cmd, locals, start0>>

StartQueryExists ==
    /\ pc = "start_exists"
    /\ \E o \in Outcomes("container_exists", docker[locals.container], FALSE) :
        LET q == container_exists(locals.container, o) IN
        /\ calls' = Append(calls, Call("container_exists", locals.container, o, "none"))
        /\ IF q.err THEN Return("Err")
           ELSE pc' = StartAfterExistsQuery(q.val) /\ UNCHANGED result
    /\ UNCHANGED <<regVars, hostVars, config, backend, docker, cmd, locals, start0>>

(* docker_start, then on to provisioning. *)
StartContainer ==
    /\ pc = "start_start"
    /\ \E o \in Outcomes("start", docker[locals.container], FALSE) :
        /\ calls' = Append(calls, Call("start", locals.container, o, "none"))
        /\ docker' = [docker EXCEPT ![locals.container] = After("start", @, o)]
        /\ IF o = "ok"
           THEN pc' = "start_provision" /\ locals' = [locals EXCEPT !.i = 1]
                /\ UNCHANGED result
           ELSE Return("Err") /\ UNCHANGED locals
    /\ UNCHANGED <<regVars, hostVars, config, backend, cmd, start0>>

(* docker_run_detached, then on to provisioning. *)
StartRunDetached ==
    /\ pc = "start_run"
    /\ \E o \in Outcomes("run_detached", docker[locals.container], FALSE) :
        /\ calls' = Append(calls, Call("run_detached", locals.container, o, "none"))
        /\ docker' = [docker EXCEPT ![locals.container] = After("run_detached", @, o)]
        /\ IF o = "ok"
           THEN pc' = "start_provision" /\ locals' = [locals EXCEPT !.i = 1]
                /\ UNCHANGED result
           ELSE Return("Err") /\ UNCHANGED locals
    /\ UNCHANGED <<regVars, hostVars, config, backend, cmd, start0>>

(* Provisioning that takes zed_remote.ssh_user before user_name. *)
ProvisionUser_ssh_first(cfg) ==
    LET first == IF cfg.ssh_user # "none" THEN cfg.ssh_user ELSE cfg.user_name
        non_root_user == IF first \in {"none", "root"} THEN {} ELSE {first}
    IN  IF cfg.provision_as_non_root THEN non_root_user ELSE {}

(* The user the provisioning commands run as: {} for the default (root). *)
ProvisionUser(cfg) ==
    LET first == IF cfg.user_name # "none" THEN cfg.user_name ELSE cfg.ssh_user
        non_root_user == IF first \in {"none", "root"} THEN {} ELSE {first}
    IN  IF cfg.provision_as_non_root THEN non_root_user ELSE {}

(* Provisioning that goes on to the next command after a failed one. *)
ProvisionAfterExec_continue(outcome) == "start_provision"

(* Where the loop goes after docker_exec_shell(..)? on one command. *)
ProvisionAfterExec(outcome) == IF outcome = "ok" THEN "start_provision" ELSE "done"

StartProvision ==
    /\ pc = "start_provision"
    /\ IF locals.i > locals.cfg.ncmds
       THEN /\ pc' = "start_sshd"
            /\ UNCHANGED <<calls, result, locals>>
       ELSE LET user == ProvisionUser(locals.cfg)
                fn == IF user = {} THEN "exec_shell" ELSE "exec_shell_as"
                arg == IF user = {} THEN "none" ELSE CHOOSE u \in user : TRUE
            IN  \E o \in Outcomes(fn, docker[locals.container], FALSE) :
                    /\ calls' = Append(calls,
                                ProvisionCall(fn, locals.container, o, arg, locals.i))
                    /\ IF ProvisionAfterExec(o) = "start_provision"
                       THEN /\ locals' = [locals EXCEPT !.i = @ + 1]
                            /\ UNCHANGED <<pc, result>>
                       ELSE Return("Err") /\ UNCHANGED locals
    /\ UNCHANGED <<regVars, hostVars, config, backend, docker, cmd, start0>>

(* Starting sshd: tried when zed_remote is enabled, its failure ignored. *)
StartSshd ==
    /\ pc = "start_sshd"
    /\ IF locals.cfg.zed
       THEN \E o \in Outcomes("exec_shell", docker[locals.container], FALSE) :
                calls' = Append(calls, Call("exec_shell", locals.container, o, "sshd"))
       ELSE UNCHANGED calls
    /\ pc' = "start_keys"
    /\ UNCHANGED <<regVars, hostVars, config, backend, docker, cmd, locals, result, start0>>

(* update_project_gitignore can fail and ends the command; the public key  *)
(* is installed when there is one to read, its failure ignored.            *)
StartKeys ==
    /\ pc = "start_keys"
    /\ \E gitignore_ok, have_key \in BOOLEAN :
        IF ~gitignore_ok THEN Return("Err") /\ UNCHANGED calls
        ELSE /\ pc' = "start_finish"
             /\ UNCHANGED result
             /\ IF have_key
                THEN \E o \in Outcomes("exec_shell", docker[locals.container], FALSE) :
                         calls' = Append(calls,
                                     Call("exec_shell", locals.container, o, "keys"))
                ELSE UNCHANGED calls
    /\ UNCHANGED <<regVars, hostVars, config, backend, docker, cmd, locals, start0>>

(* Opening the IDE, then the interactive shell when --attach is given. *)
StartFinish ==
    /\ pc = "start_finish"
    /\ LET opened == IF cmd.open
                     THEN Append(calls, Call("open", locals.container, "ok", "none"))
                     ELSE calls
       IN  IF cmd.attach
           THEN \E o \in Outcomes("exec_interactive_shell",
                                  docker[locals.container], FALSE) :
                    /\ calls' = Append(opened, Call("exec_interactive_shell",
                                                    locals.container, o, "none"))
                    /\ Return(IF o = "ok" THEN "Ok" ELSE "Err")
           ELSE calls' = opened /\ Return("Ok")
    /\ UNCHANGED <<regVars, hostVars, config, backend, docker, cmd, locals, start0>>

(* ---- cmd_stop ---- *)

BeginStop ==
    /\ pc = "idle"
    /\ \E name \in NameArgs :
        cmd' = [op |-> "stop", name |-> name, no_build |-> FALSE,
                open |-> FALSE, attach |-> FALSE]
    /\ pc' = "stop_resolve"
    /\ locals' = NoLocals
    /\ calls' = <<>>
    /\ result' = "none"
    /\ start0' = docker
    /\ UNCHANGED <<regVars, hostVars, config, backend, docker>>

(* Where cmd_stop goes once it knows whether the container exists. *)
StopAfterExistsQuery(exists) == IF exists THEN "stop_running" ELSE "done"

(* cmd_stop stopping whatever exists. *)
StopAfterRunningQuery_always(running) == "stop_stop"

(* Where cmd_stop goes once it knows whether the container runs. *)
StopAfterRunningQuery(running) == IF running THEN "stop_stop" ELSE "done"

StopResolve ==
    /\ pc = "stop_resolve"
    /\ LET e == effective_name(cmd.name) IN
       IF ~e.ok THEN Return("Err") /\ UNCHANGED locals
       ELSE /\ locals' = [locals EXCEPT !.env = e.name, !.container = Target(e.name)]
            /\ pc' = "stop_exists"
            /\ UNCHANGED result
    /\ UNCHANGED <<regVars, hostVars, config, backend, docker, cmd, calls, start0>>

StopQueryExists ==
    /\ pc = "stop_exists"
    /\ \E o \in Outcomes("container_exists", docker[locals.container], FALSE) :
        LET q == container_exists(locals.container, o) IN
        /\ calls' = Append(calls, Call("container_exists", locals.container, o, "none"))
        /\ IF q.err THEN Return("Err")
           ELSE IF StopAfterExistsQuery(q.val) = "done" THEN Return("Ok")
           ELSE pc' = StopAfterExistsQuery(q.val) /\ UNCHANGED result
    /\ UNCHANGED <<regVars, hostVars, config, backend, docker, cmd, locals, start0>>

StopQueryRunning ==
    /\ pc = "stop_running"
    /\ \E o \in Outcomes("is_container_running", docker[locals.container], FALSE) :
        LET q == is_container_running(locals.container, o) IN
        /\ calls' = Append(calls, Call("is_container_running", locals.container, o, "none"))
        /\ IF q.err THEN Return("Err")
           ELSE IF StopAfterRunningQuery(q.val) = "done" THEN Return("Ok")
           ELSE pc' = StopAfterRunningQuery(q.val) /\ UNCHANGED result
    /\ UNCHANGED <<regVars, hostVars, config, backend, docker, cmd, locals, start0>>

StopContainer ==
    /\ pc = "stop_stop"
    /\ \E o \in Outcomes("stop", docker[locals.container], FALSE) :
        /\ calls' = Append(calls, Call("stop", locals.container, o, "none"))
        /\ docker' = [docker EXCEPT ![locals.container] = After("stop", @, o)]
        /\ Return(IF o = "ok" THEN "Ok" ELSE "Err")
    /\ UNCHANGED <<regVars, hostVars, config, backend, cmd, locals, start0>>

(* ---- cmd_remove ---- *)

BeginRemove ==
    /\ pc = "idle"
    /\ \E name \in NameArgs :
        cmd' = [op |-> "remove", name |-> name, no_build |-> FALSE,
                open |-> FALSE, attach |-> FALSE]
    /\ pc' = "remove_resolve"
    /\ locals' = NoLocals
    /\ calls' = <<>>
    /\ result' = "none"
    /\ start0' = docker
    /\ UNCHANGED <<regVars, hostVars, config, backend, docker>>

(* cmd_remove asking whether the container runs although none exists. *)
RemoveAfterExistsQuery_always(exists) == "remove_running"

(* Where cmd_remove goes once it knows whether the container exists. *)
RemoveAfterExistsQuery(exists) ==
    IF exists THEN "remove_running" ELSE "remove_unregister"

(* cmd_remove removing without stopping. *)
RemoveAfterRunningQuery_never(running) == "remove_rm"

(* Where cmd_remove goes once it knows whether the container runs. *)
RemoveAfterRunningQuery(running) == IF running THEN "remove_stop" ELSE "remove_rm"

(* cmd_remove going on to the removal after a failed stop. *)
RemoveAfterStop_goon(outcome) == "remove_rm"

(* Where cmd_remove goes after docker_stop(..)? *)
RemoveAfterStop(outcome) == IF outcome = "ok" THEN "remove_rm" ELSE "done"

(* cmd_remove going on to the registry after a failed removal. *)
RemoveAfterRemove_goon(outcome) == "remove_unregister"

(* Where cmd_remove goes after docker_remove_container(..)? *)
RemoveAfterRemove(outcome) == IF outcome = "ok" THEN "remove_unregister" ELSE "done"

(* The force argument cmd_remove passes to docker_remove_container. *)
RemoveForce == FALSE

RemoveResolve ==
    /\ pc = "remove_resolve"
    /\ LET e == effective_name(cmd.name) IN
       IF ~e.ok THEN Return("Err") /\ UNCHANGED locals
       ELSE /\ locals' = [locals EXCEPT !.env = e.name, !.container = Target(e.name)]
            /\ pc' = "remove_exists"
            /\ UNCHANGED result
    /\ UNCHANGED <<regVars, hostVars, config, backend, docker, cmd, calls, start0>>

RemoveQueryExists ==
    /\ pc = "remove_exists"
    /\ \E o \in Outcomes("container_exists", docker[locals.container], FALSE) :
        LET q == container_exists(locals.container, o) IN
        /\ calls' = Append(calls, Call("container_exists", locals.container, o, "none"))
        /\ IF q.err THEN Return("Err")
           ELSE pc' = RemoveAfterExistsQuery(q.val) /\ UNCHANGED result
    /\ UNCHANGED <<regVars, hostVars, config, backend, docker, cmd, locals, start0>>

RemoveQueryRunning ==
    /\ pc = "remove_running"
    /\ \E o \in Outcomes("is_container_running", docker[locals.container], FALSE) :
        LET q == is_container_running(locals.container, o) IN
        /\ calls' = Append(calls, Call("is_container_running", locals.container, o, "none"))
        /\ IF q.err THEN Return("Err")
           ELSE pc' = RemoveAfterRunningQuery(q.val) /\ UNCHANGED result
    /\ UNCHANGED <<regVars, hostVars, config, backend, docker, cmd, locals, start0>>

RemoveStop ==
    /\ pc = "remove_stop"
    /\ \E o \in Outcomes("stop", docker[locals.container], FALSE) :
        /\ calls' = Append(calls, Call("stop", locals.container, o, "none"))
        /\ docker' = [docker EXCEPT ![locals.container] = After("stop", @, o)]
        /\ IF RemoveAfterStop(o) = "done" THEN Return("Err")
           ELSE pc' = RemoveAfterStop(o) /\ UNCHANGED result
    /\ UNCHANGED <<regVars, hostVars, config, backend, cmd, locals, start0>>

RemoveContainer ==
    /\ pc = "remove_rm"
    /\ \E o \in Outcomes("remove", docker[locals.container], RemoveForce) :
        /\ calls' = Append(calls, Call("remove", locals.container, o,
                                       ForceArg(RemoveForce)))
        /\ docker' = [docker EXCEPT ![locals.container] = After("remove", @, o)]
        /\ IF RemoveAfterRemove(o) = "done" THEN Return("Err")
           ELSE pc' = RemoveAfterRemove(o) /\ UNCHANGED result
    /\ UNCHANGED <<regVars, hostVars, config, backend, cmd, locals, start0>>

(* registry::unregister_env on the name the command ran under; only an    *)
(* error of the registry ends the command with an error.  The history of  *)
(* the registry calls is left as it was.                                  *)
RemoveUnregister ==
    /\ pc = "remove_unregister"
    /\ LET r == unregister_env(file, CHOOSE n \in locals.env : TRUE) IN
        /\ file' = r.file
        /\ calls' = Append(calls, Call("unregister_env", locals.container,
                                       IF r.res = "Corrupt" THEN "fail" ELSE "ok",
                                       IF r.res = "Corrupt" THEN "Err"
                                       ELSE IF r.removed THEN "Ok(true)"
                                       ELSE "Ok(false)"))
        /\ Return(IF r.res = "Corrupt" THEN "Err" ELSE "Ok")
    /\ UNCHANGED <<bound, removed, last, prevFile>>
    /\ UNCHANGED <<hostVars, config, backend, docker, cmd, locals, start0>>

(* ---- cmd_restart ---- *)

BeginRestart ==
    /\ pc = "idle"
    /\ \E name \in NameArgs, no_build, open, attach \in BOOLEAN :
        cmd' = [op |-> "restart", name |-> name, no_build |-> no_build,
                open |-> open, attach |-> attach, rebuild |-> FALSE]
    /\ pc' = "restart_resolve"
    /\ locals' = NoLocals
    /\ calls' = <<>>
    /\ result' = "none"
    /\ start0' = docker
    /\ UNCHANGED <<regVars, hostVars, config, backend, docker>>

(* Where cmd_restart goes once both queries have answered. *)
RestartAfterQueries(exists, running) ==
    IF exists /\ running THEN "restart_stop" ELSE "restart_start"

(* cmd_restart going on to cmd_start whatever docker_stop returned. *)
RestartAfterStop_besteffort(outcome) == "restart_start"

(* Where cmd_restart goes after docker_stop(..)? *)
RestartAfterStop(outcome) == IF outcome = "ok" THEN "restart_start" ELSE "done"

RestartResolve ==
    /\ pc = "restart_resolve"
    /\ LET e == effective_name(cmd.name) IN
       IF ~e.ok THEN Return("Err") /\ UNCHANGED locals
       ELSE /\ locals' = [locals EXCEPT !.env = e.name, !.container = Target(e.name)]
            /\ pc' = "restart_exists"
            /\ UNCHANGED result
    /\ UNCHANGED <<regVars, hostVars, config, backend, docker, cmd, calls, start0>>

(* The first component of the matched pair. *)
RestartQueryExists ==
    /\ pc = "restart_exists"
    /\ \E o \in Outcomes("container_exists", docker[locals.container], FALSE) :
        LET q == container_exists(locals.container, o) IN
        /\ calls' = Append(calls, Call("container_exists", locals.container, o, "none"))
        /\ IF q.err THEN Return("Err")
           ELSE /\ pc' = IF q.val THEN "restart_running_exists"
                         ELSE "restart_running_absent"
                /\ UNCHANGED result
    /\ UNCHANGED <<regVars, hostVars, config, backend, docker, cmd, locals, start0>>

(* The second component, evaluated whatever the first one was. *)
RestartQueryRunning ==
    /\ pc \in {"restart_running_exists", "restart_running_absent"}
    /\ \E o \in Outcomes("is_container_running", docker[locals.container], FALSE) :
        LET q == is_container_running(locals.container, o) IN
        /\ calls' = Append(calls, Call("is_container_running", locals.container, o, "none"))
        /\ IF q.err THEN Return("Err")
           ELSE /\ pc' = RestartAfterQueries(pc = "restart_running_exists", q.val)
                /\ UNCHANGED result
    /\ UNCHANGED <<regVars, hostVars, config, backend, docker, cmd, locals, start0>>

RestartStop ==
    /\ pc = "restart_stop"
    /\ \E o \in Outcomes("stop", docker[locals.container], FALSE) :
        /\ calls' = Append(calls, Call("stop", locals.container, o, "none"))
        /\ docker' = [docker EXCEPT ![locals.container] = After("stop", @, o)]
        /\ IF RestartAfterStop(o) = "done" THEN Return("Err")
           ELSE pc' = RestartAfterStop(o) /\ UNCHANGED result
    /\ UNCHANGED <<regVars, hostVars, config, backend, cmd, locals, start0>>

(* cmd_start(name, open_cmd, attach, rebuild, no_build): the start        *)
(* sequence runs with the arguments of the restart, from its beginning.   *)
RestartStart ==
    /\ pc = "restart_start"
    /\ calls' = Append(calls, Call("cmd_start", locals.container, "ok", "none"))
    /\ pc' = "start_resolve"
    /\ UNCHANGED <<regVars, hostVars, config, backend, docker, cmd, locals, result, start0>>

(* ---- docker_exec_shell / docker_exec_shell_as ---- *)

(* How one `exec <shell> -lc <script>` can end.                            *)
(*   exit0, exit_nonzero : the shell ran the script, which exited so       *)
(*   unavailable         : the shell is not in the image (exit 126 / 127)  *)
(*   refused             : the runtime did not start the exec              *)
(*   nospawn             : the docker program could not be spawned (CLI)   *)
(*   inspect_error       : the script ran, inspect_exec failed (API)       *)
ShellOutcomes(s) ==
    (IF s = "Running" THEN {"exit0", "exit_nonzero", "unavailable"} ELSE {})
        \cup {"refused"}
        \cup (IF backend = "cli" THEN {"nospawn"} ELSE {})
        \cup (IF backend = "api" /\ s = "Running" THEN {"inspect_error"} ELSE {})

(* The shell ran the script. *)
Ran(outcome) == outcome \in {"exit0", "exit_nonzero", "inspect_error"}

(* What one attempt gives the caller: "true", "false" or "err".  The CLI  *)
(* variant reads the bash attempt with matches!(status, Ok(s) if          *)
(* s.success()) and the sh attempt with with_context(..)?; the API        *)
(* variant is exec_and_wait(..)? for both.                                *)
AttemptResult(shell, outcome) ==
    IF outcome = "exit0" THEN "true"
    ELSE IF backend = "api"
    THEN IF outcome \in {"refused", "inspect_error"} THEN "err" ELSE "false"
    ELSE IF outcome = "nospawn" /\ shell = "/bin/sh" THEN "err" ELSE "false"

(* After the bash attempt: return, or go on to the sh attempt. *)
ExecAfterBash(res, outcome) ==
    IF res = "true" THEN "Ok"
    ELSE IF res = "err" THEN "Err"
    ELSE "exec_sh"

(* exec_shell that takes the sh attempt for a success whatever it gave. *)
ExecAfterSh_lenient(res) == "Ok"

(* After the sh attempt. *)
ExecAfterSh(res) == IF res = "true" THEN "Ok" ELSE "Err"

BeginExec ==
    /\ pc = "idle"
    /\ \E fn \in {"exec_shell", "exec_shell_as"}, n \in Names,
          script \in 1 .. MaxCommands :
        /\ cmd' = [op |-> fn, name |-> {n}, script |-> script,
                   user |-> IF fn = "exec_shell_as" THEN "dev" ELSE "none"]
        /\ locals' = [NoLocals EXCEPT !.env = {n}, !.container = ContainerName(n)]
    /\ pc' = "exec_bash"
    /\ calls' = <<>>
    /\ result' = "none"
    /\ start0' = docker
    /\ UNCHANGED <<regVars, hostVars, config, backend, docker>>

ExecBash ==
    /\ pc = "exec_bash"
    /\ \E o \in ShellOutcomes(docker[locals.container]) :
        LET next == ExecAfterBash(AttemptResult("/bin/bash", o), o) IN
        /\ calls' = Append(calls, ProvisionCall("/bin/bash", locals.container, o,
                                                cmd.user, cmd.script))
        /\ IF next = "exec_sh" THEN pc' = next /\ UNCHANGED result
           ELSE Return(next)
    /\ UNCHANGED <<regVars, hostVars, config, backend, docker, cmd, locals, start0>>

ExecSh ==
    /\ pc = "exec_sh"
    /\ \E o \in ShellOutcomes(docker[locals.container]) :
        /\ calls' = Append(calls, ProvisionCall("/bin/sh", locals.container, o,
                                                cmd.user, cmd.script))
        /\ Return(ExecAfterSh(AttemptResult("/bin/sh", o)))
    /\ UNCHANGED <<regVars, hostVars, config, backend, docker, cmd, locals, start0>>

(* ---- docker_build_with_opts ---- *)

(* What the runtime's build reports while it runs: progress, the error of *)
(* one build step, or the loss of the connection to the runtime.          *)
EventKinds == {"info", "step_error", "transport_error"}

RECURSIVE EventStreams(_)
EventStreams(n) ==
    IF n = 0 THEN {<<>>}
    ELSE EventStreams(n - 1)
             \cup {Append(es, k) : es \in {e \in EventStreams(n - 1) : Len(e) = n - 1},
                                   k \in EventKinds}

(* A build: its events and its final result.  A build that lost the      *)
(* connection has no zero result.                                         *)
Builds ==
    {b \in [events : EventStreams(MaxEvents), final : {"zero", "nonzero"}] :
        (\E i \in 1 .. Len(b.events) : b.events[i] = "transport_error")
            => b.final = "nonzero"}

(* How the variant handles one event: the docker program prints it, the   *)
(* API variant logs it with debug! or error! and goes on.                 *)
EventHandling(kind) ==
    IF backend = "cli" THEN "stdio"
    ELSE IF kind = "info" THEN "debug" ELSE "error"

(* What the function returns once the build is over: the CLI variant the  *)
(* exit status of `docker build`, the API variant Ok(()).                 *)
BuildResult(b) ==
    IF backend = "cli" THEN (IF b.final = "zero" THEN "Ok" ELSE "Err")
    ELSE "Ok"

BeginBuild ==
    /\ pc = "idle"
    /\ \E n \in Names, b \in Builds :
        /\ cmd' = [op |-> "build_with_opts", name |-> {n}, build |-> b]
        /\ locals' = [NoLocals EXCEPT !.env = {n}, !.container = ContainerName(n)]
    /\ pc' = "build_launch"
    /\ calls' = <<>>
    /\ result' = "none"
    /\ start0' = docker
    /\ UNCHANGED <<regVars, hostVars, config, backend, docker>>

(* Spawning `docker build`, or packing the context and posting it. *)
BuildLaunch ==
    /\ pc = "build_launch"
    /\ \E o \in {"ok", "fail"} :
        /\ calls' = Append(calls, Call("launch", locals.container, o, "none"))
        /\ IF o = "ok" THEN pc' = "build_stream" /\ UNCHANGED result
           ELSE Return("Err")
    /\ UNCHANGED <<regVars, hostVars, config, backend, docker, cmd, locals, start0>>

(* The next event of the stream is taken. *)
BuildEvent ==
    /\ pc = "build_stream"
    /\ locals.i < Len(cmd.build.events)
    /\ LET kind == cmd.build.events[locals.i + 1] IN
       calls' = Append(calls, Call("event", locals.container, kind,
                                   EventHandling(kind)))
    /\ locals' = [locals EXCEPT !.i = @ + 1]
    /\ UNCHANGED <<regVars, hostVars, config, backend, docker, cmd, pc, result, start0>>

(* The stream has ended. *)
BuildReturn ==
    /\ pc = "build_stream"
    /\ locals.i = Len(cmd.build.events)
    /\ Return(BuildResult(cmd.build))
    /\ UNCHANGED <<regVars, hostVars, config, backend, docker, cmd, locals, calls,
                   start0>>

NoCommand == [op |-> "none", name |-> {}, no_build |-> FALSE,
              open |-> FALSE, attach |-> FALSE]

(* ---- cmd_start with --rebuild ---- *)

(* devenv start where --rebuild may be given; the shell and the editor    *)
(* are left out.                                                          *)
BeginStartRebuild ==
    /\ pc = "idle"
    /\ \E name \in NameArgs, no_build, rebuild \in BOOLEAN :
        cmd' = [op |-> "start", name |-> name, no_build |-> no_build,
                open |-> FALSE, attach |-> FALSE, rebuild |-> rebuild]
    /\ pc' = "start_resolve"
    /\ locals' = NoLocals
    /\ calls' = <<>>
    /\ result' = "none"
    /\ start0' = docker
    /\ UNCHANGED <<regVars, hostVars, config, backend, docker>>

(* ---- cmd_build ---- *)

BeginCmdBuild ==
    /\ pc = "idle"
    /\ \E name \in NameArgs, rebuild \in BOOLEAN :
        cmd' = [op |-> "build", name |-> name, no_build |-> FALSE,
                open |-> FALSE, attach |-> FALSE, rebuild |-> rebuild]
    /\ pc' = "build_resolve"
    /\ locals' = NoLocals
    /\ calls' = <<>>
    /\ result' = "none"
    /\ start0' = docker
    /\ UNCHANGED <<regVars, hostVars, config, backend, docker>>

CmdBuildResolve ==
    /\ pc = "build_resolve"
    /\ LET r == resolve_env_from_name_or_cwd(cmd.name) IN
       IF ~r.ok THEN Return("Err") /\ UNCHANGED locals
       ELSE /\ locals' = [locals EXCEPT !.env = {r.cfg.name},
                                        !.container = ContainerName(r.cfg.name),
                                        !.cfg = r.cfg]
            /\ pc' = "build_dockerfile"
            /\ UNCHANGED result
    /\ UNCHANGED <<regVars, hostVars, config, backend, docker, cmd, calls, start0>>

CmdBuildDockerfile ==
    /\ pc = "build_dockerfile"
    /\ \E write_ok \in BOOLEAN :
        LET r == build_dockerfile(dockerfile, cmd.rebuild, write_ok) IN
        /\ dockerfile' = r.file
        /\ locals' = [locals EXCEPT !.dockerfile0 = dockerfile,
                                    !.wrote = r.wrote, !.warned = r.warned]
        /\ IF r.ok THEN pc' = "build_image" /\ UNCHANGED result
           ELSE Return("Err")
    /\ UNCHANGED <<regVars, terminal, session, config, backend, docker, cmd, calls,
                   start0>>

CmdBuildImage ==
    /\ pc = "build_image"
    /\ \E o \in Outcomes("build", docker[locals.container], FALSE) :
        /\ calls' = Append(calls, Call("build", locals.container, o, "none"))
        /\ Return(IF o = "ok" THEN "Ok" ELSE "Err")
    /\ UNCHANGED <<regVars, hostVars, config, backend, docker, cmd, locals, start0>>

(* ---- cmd_init ---- *)

(* The project directory of cmd_init is the working directory, path 1,    *)
(* and a config without a name takes the directory's name, 1.             *)
InitPath == 1

DefaultConfig == Config(InitPath, 0, FALSE, "none", "none", FALSE)

BeginCmdInit ==
    /\ pc = "idle"
    /\ \E dir_exists \in BOOLEAN :
        cmd' = [op |-> "init", name |-> {}, no_build |-> FALSE, open |-> FALSE,
                attach |-> FALSE, rebuild |-> FALSE, dir_exists |-> dir_exists]
    /\ pc' = "init_config"
    /\ locals' = NoLocals
    /\ calls' = <<>>
    /\ result' = "none"
    /\ start0' = docker
    /\ UNCHANGED <<regVars, hostVars, config, backend, docker>>

(* The directory must exist; devenv.toml is read when it exists and       *)
(* written from the defaults when it does not.                            *)
CmdInitConfig ==
    /\ pc = "init_config"
    /\ \E io_ok \in BOOLEAN :
        IF ~cmd.dir_exists \/ ~io_ok
        THEN Return("Err") /\ UNCHANGED <<config, locals>>
        ELSE LET cfg == IF config = {} THEN DefaultConfig
                        ELSE CHOOSE c \in config : TRUE IN
             /\ config' = {cfg}
             /\ locals' = [locals EXCEPT !.env = {cfg.name},
                                         !.container = ContainerName(cfg.name),
                                         !.cfg = cfg]
             /\ pc' = "init_dockerfile"
             /\ UNCHANGED result
    /\ UNCHANGED <<regVars, hostVars, backend, docker, cmd, calls, start0>>

CmdInitDockerfile ==
    /\ pc = "init_dockerfile"
    /\ \E write_ok \in BOOLEAN :
        LET r == init_dockerfile(dockerfile, write_ok) IN
        /\ dockerfile' = r.file
        /\ locals' = [locals EXCEPT !.dockerfile0 = dockerfile,
                                    !.wrote = r.wrote, !.warned = r.warned]
        /\ IF r.ok THEN pc' = "init_register" /\ UNCHANGED result
           ELSE Return("Err")
    /\ UNCHANGED <<regVars, terminal, session, config, backend, docker, cmd, calls,
                   start0>>

CmdInitRegister ==
    /\ pc = "init_register"
    /\ LET r == register_env(file, locals.cfg.name, InitPath) IN
        /\ file' = r.file
        /\ bound' = IF r.res = "Ok" THEN [bound EXCEPT ![locals.cfg.name] = {InitPath}]
                    ELSE bound
        /\ removed' = IF r.res = "Ok" THEN removed \ {locals.cfg.name} ELSE removed
        /\ calls' = Append(calls, Call("register_env", locals.container,
                                       IF r.res = "Ok" THEN "ok" ELSE "fail", r.res))
        /\ IF r.res = "Ok" THEN pc' = "init_build" /\ UNCHANGED result
           ELSE Return("Err")
    /\ UNCHANGED <<last, prevFile, hostVars, config, backend, docker, cmd, locals,
                   start0>>

CmdInitBuild ==
    /\ pc = "init_build"
    /\ \E o \in Outcomes("build", docker[locals.container], FALSE) :
        /\ calls' = Append(calls, Call("build", locals.container, o, "none"))
        /\ Return(IF o = "ok" THEN "Ok" ELSE "Err")
    /\ UNCHANGED <<regVars, hostVars, config, backend, docker, cmd, locals, start0>>

(* ---- generate_dockerfile as cmd_start and cmd_build call it ---- *)

BeginRender ==
    /\ pc = "idle"
    /\ \E dev \in DevEnvs :
        cmd' = [op |-> "generate_dockerfile", name |-> {}, dev |-> dev]
    /\ pc' = "render"
    /\ locals' = NoLocals
    /\ calls' = <<>>
    /\ result' = "none"
    /\ start0' = docker
    /\ UNCHANGED <<regVars, hostVars, config, backend, docker>>

(* One entry of the log of renderings: the config rendered, the text, the *)
(* command that rendered and the Dockerfile it found on disk.             *)
Rendering(dev, caller) ==
    [fn |-> "generate_dockerfile", arg |-> dev, out |-> generate_dockerfile(dev),
     caller |-> caller, found |-> dockerfile]

(* cmd_start renders the config and settles the Dockerfile. *)
RenderStart ==
    /\ pc = "render"
    /\ Len(calls) < MaxRenders
    /\ calls' = Append(calls, Rendering(cmd.dev, "cmd_start"))
    /\ \E rebuild, write_ok \in BOOLEAN :
        dockerfile' = start_dockerfile(dockerfile, rebuild, write_ok).file
    /\ UNCHANGED <<regVars, terminal, session, config, backend, docker, cmd, pc,
                   locals, result, start0>>

(* cmd_build renders the config and settles the Dockerfile. *)
RenderBuild ==
    /\ pc = "render"
    /\ Len(calls) < MaxRenders
    /\ calls' = Append(calls, Rendering(cmd.dev, "cmd_build"))
    /\ \E rebuild, write_ok \in BOOLEAN :
        dockerfile' = build_dockerfile(dockerfile, rebuild, write_ok).file
    /\ UNCHANGED <<regVars, terminal, session, config, backend, docker, cmd, pc,
                   locals, result, start0>>

RenderDone ==
    /\ pc = "render"
    /\ calls # <<>>
    /\ Return("Ok")
    /\ UNCHANGED <<regVars, hostVars, config, backend, docker, cmd, locals, calls,
                   start0>>

(* ---- exec_interactive_shell over the API ---- *)

InteractiveShells == <<"/bin/bash", "/bin/sh">>

(* The build: with the window-change signal or with polling. *)
Platforms == {"unix", "windows"}

WindowSizes == {1, 2}

(* RawModeGuard::enable: the terminal after it and whether it succeeded. *)
RawModeGuard_enable(t, ok) == IF ok THEN "raw" ELSE t

(* A guard that is forgotten instead of dropped. *)
RawModeGuard_drop_forget(t) == t

(* Drop of RawModeGuard: disable_raw_mode, its result ignored. *)
RawModeGuard_drop(t) == "cooked"

(* try_join!(out_task, in_task) returns when both tasks have finished;    *)
(* neither task returns an error.                                         *)
JoinReady(ses) == ses.out = "done" /\ ses.inp = "done"

(* The watcher left running at the end of the session. *)
resize_abort_skip(w) == w

(* resize_handle.abort() *)
resize_abort(w) == IF w = "running" THEN "aborted" ELSE w

BeginInteractive ==
    /\ pc = "idle"
    /\ backend = "api"
    /\ \E n \in Names, platform \in Platforms :
        /\ cmd' = [op |-> "exec_interactive_shell", name |-> {n},
                   platform |-> platform]
        /\ locals' = [NoLocals EXCEPT !.container = ContainerName(n), !.i = 1]
    /\ pc' = "ix_enable"
    /\ calls' = <<>>
    /\ result' = "none"
    /\ start0' = docker
    /\ \E size \in WindowSizes : session' = [NoSession EXCEPT !.size = size]
    /\ UNCHANGED <<regVars, dockerfile, terminal, config, backend, docker>>

(* exec_interactive begins: the terminal goes raw or the call fails. *)
InteractiveEnable ==
    /\ pc = "ix_enable"
    /\ \E ok \in BOOLEAN :
        /\ terminal' = RawModeGuard_enable(terminal, ok)
        /\ calls' = Append(calls, Call("enable_raw_mode", locals.container,
                                       IF ok THEN "ok" ELSE "fail",
                                       InteractiveShells[locals.i]))
        /\ IF ok THEN pc' = "ix_create" /\ UNCHANGED result
           ELSE Return("Err")
    /\ session' = [NoSession EXCEPT !.size = session.size]
    /\ UNCHANGED <<regVars, dockerfile, config, backend, docker, cmd, locals, start0>>

InteractiveCreate ==
    /\ pc = "ix_create"
    /\ \E o \in Outcomes("exec_interactive_shell", docker[locals.container], FALSE) :
        /\ calls' = Append(calls, Call("create_exec", locals.container, o,
                                       InteractiveShells[locals.i]))
        /\ IF o = "ok"
           THEN pc' = "ix_start" /\ UNCHANGED <<result, terminal>>
           ELSE Return("Err") /\ terminal' = RawModeGuard_drop(terminal)
    /\ UNCHANGED <<regVars, dockerfile, session, config, backend, docker, cmd,
                   locals, start0>>

(* The tasks started without a resize before them. *)
initial_resize_none(events, size) == events

(* The resize events after the resize to the terminal's size that         *)
(* precedes the tasks.                                                    *)
initial_resize(events, size) == Append(events, [size |-> size, by |-> "initial"])

(* start_exec, the first resize and the three tasks.  The watcher of the  *)
(* unix build ends at once when it cannot listen for window changes.      *)
InteractiveStart ==
    /\ pc = "ix_start"
    /\ \E o \in {"ok", "fail"}, listening \in BOOLEAN :
        /\ cmd.platform = "windows" => listening
        /\ calls' = Append(calls, Call("start_exec", locals.container, o,
                                       InteractiveShells[locals.i]))
        /\ IF o = "ok"
           THEN /\ session' = [NoSession EXCEPT
                                  !.state = "attached", !.out = "running",
                                  !.inp = "running",
                                  !.size = session.size,
                                  !.events = initial_resize(<<>>, session.size),
                                  !.watcher = IF listening THEN "running" ELSE "ended"]
                /\ pc' = "ix_attached"
                /\ UNCHANGED <<result, terminal>>
           ELSE /\ Return("Err")
                /\ terminal' = RawModeGuard_drop(terminal)
                /\ UNCHANGED session
    /\ UNCHANGED <<regVars, dockerfile, config, backend, docker, cmd, locals, start0>>

(* out_task takes the next item of the remote output: the message of a   *)
(* chunk is written to stdout, an error item is passed over, the end of   *)
(* the stream ends the task.                                              *)
Messages == {<<"a">>, <<"b">>}

OutputItems ==
    {[kind |-> "chunk", message |-> m] : m \in Messages}
        \cup {[kind |-> "error", message |-> <<>>], [kind |-> "end", message |-> <<>>]}

(* out_task that does not repeat a message it has just written. *)
stdout_write_once(out, item) ==
    IF item.kind = "chunk"
           /\ (Len(out) < Len(item.message)
                  \/ SubSeq(out, Len(out) - Len(item.message) + 1, Len(out))
                         # item.message)
    THEN out \o item.message
    ELSE out

(* stdout after out_task has handled the item. *)
stdout_write(out, item) == IF item.kind = "chunk" THEN out \o item.message ELSE out

OutPump ==
    /\ pc = "ix_attached"
    /\ session.out = "running"
    /\ \E item \in OutputItems :
        /\ item.kind # "end" => session.items < MaxItems
        /\ session' = [session EXCEPT
                          !.items = IF item.kind = "end" THEN @ ELSE @ + 1,
                          !.out_err = @ \/ item.kind = "error",
                          !.closed = item.kind = "end",
                          !.received = @ \o item.message,
                          !.stdout = stdout_write(@, item),
                          !.out = IF item.kind = "end" THEN "done" ELSE "running"]
    /\ UNCHANGED <<regVars, dockerfile, terminal, config, backend, docker, cmd, pc,
                   locals, calls, result, start0>>

(* in_task reads stdin: bytes are written to the remote input, and the    *)
(* task ends at end of input, on a failed read and on a failed write.     *)
StdinReads == {"bytes", "bytes_unwritten", "eof", "error"}

InPump ==
    /\ pc = "ix_attached"
    /\ session.inp = "running"
    /\ \E read \in StdinReads :
        /\ read = "bytes" => session.reads < MaxItems
        /\ session' = [session EXCEPT
                          !.reads = IF read = "bytes" THEN @ + 1 ELSE @,
                          !.in_err = @ \/ read = "error",
                          !.eof = read = "eof",
                          !.inp = IF read = "bytes" THEN "running" ELSE "done"]
    /\ UNCHANGED <<regVars, dockerfile, terminal, config, backend, docker, cmd, pc,
                   locals, calls, result, start0>>

(* The user resizes the local terminal window.  In the unix build the    *)
(* running watcher gets a window-change signal; signals that it has not   *)
(* taken yet count as one.                                                *)
WindowChange ==
    /\ pc \in {"ix_attached", "ix_inspect"}
    /\ session.changes < MaxResizes
    /\ \E size \in WindowSizes \ {session.size} :
        LET signalled == cmd.platform = "unix" /\ session.watcher = "running" IN
        session' = [session EXCEPT
                       !.size = size,
                       !.changes = @ + 1,
                       !.notified = IF signalled /\ ~session.winch THEN @ + 1 ELSE @,
                       !.winch = @ \/ signalled]
    /\ UNCHANGED <<regVars, dockerfile, terminal, config, backend, docker, cmd, pc,
                   locals, calls, result, start0>>

(* Whether the watcher has a resize to send: in the unix build when a     *)
(* signal has come, in the windows build when the size it polls is not    *)
(* the one it sent last.                                                  *)
WatcherSends(platform, ses) ==
    IF platform = "unix" THEN ses.winch ELSE ses.size # ses.last

(* The watcher forwards the size of the window. *)
ResizeWatcher ==
    /\ pc \in {"ix_attached", "ix_inspect", "done"}
    /\ session.watcher = "running"
    /\ WatcherSends(cmd.platform, session)
    /\ session' = [session EXCEPT
                      !.resizes = @ + 1,
                      !.winch = FALSE,
                      !.last = IF cmd.platform = "windows" THEN session.size ELSE @,
                      !.events = Append(@, [size |-> session.size, by |-> "watcher"]),
                      !.late = @ \/ session.state = "ended"]
    /\ UNCHANGED <<regVars, dockerfile, terminal, config, backend, docker, cmd, pc,
                   locals, calls, result, start0>>

(* try_join! returns and the watcher is aborted. *)
InteractiveJoin ==
    /\ pc = "ix_attached"
    /\ JoinReady(session)
    /\ session' = [session EXCEPT !.state = "ended",
                                  !.watcher = resize_abort(session.watcher)]
    /\ pc' = "ix_inspect"
    /\ UNCHANGED <<regVars, dockerfile, terminal, config, backend, docker, cmd,
                   locals, calls, result, start0>>

(* What exec_interactive_shell does with the result of an attempt. *)
InteractiveAfterAttempt(i, res) ==
    IF res = "true" THEN "Ok"
    ELSE IF res = "err" THEN "Err"
    ELSE IF i < Len(InteractiveShells) THEN "next"
    ELSE "Err"

(* How the exec can have ended when it is inspected: the shell ran and    *)
(* exited with zero or another status, the shell is not in the image and  *)
(* the exec ended with status 126 or 127, or inspect_exec fails.          *)
InspectOutcomes == {"exit0", "exit_nonzero", "unavailable", "inspect_error"}

(* What exec_interactive returns. *)
InteractiveResult(o) ==
    IF o = "inspect_error" THEN "err" ELSE IF o = "exit0" THEN "true" ELSE "false"

(* inspect_exec, then exec_interactive returns and its guard is dropped. *)
InteractiveInspect ==
    /\ pc = "ix_inspect"
    /\ \E o \in InspectOutcomes :
        LET res == InteractiveResult(o)
            then == InteractiveAfterAttempt(locals.i, res) IN
        /\ calls' = Append(calls, Call("inspect_exec", locals.container, o,
                                       InteractiveShells[locals.i]))
        /\ terminal' = RawModeGuard_drop(terminal)
        /\ IF then = "next"
           THEN /\ pc' = "ix_enable"
                /\ locals' = [locals EXCEPT !.i = @ + 1]
                /\ UNCHANGED result
           ELSE Return(then) /\ UNCHANGED locals
    /\ UNCHANGED <<regVars, dockerfile, session, config, backend, docker, cmd, start0>>

(* ---- two CLI processes on one registry file ---- *)

Procs == {1, 2}

RegistryOps == {"register", "lookup", "unregister"}

(* A process before its call: seen is the file as load_registry read it,  *)
(* reg the registry in memory, after the processes that had returned when *)
(* it read.                                                               *)
NoProcLocals == [seen |-> FileMissing, reg |-> EmptyRegistry, after |-> {}]

(* fs::write that adds the new members to the ones in the file. *)
fs_write_append(f, reg) ==
    IF f.kind = "text" THEN save_registry(FromEntries(ToEntries(reg, 1),
                                                      FromEntries(f.entries, EmptyRegistry)))
    ELSE save_registry(reg)

(* fs::write(path, data): the file holds the data and nothing else. *)
fs_write(f, reg) == save_registry(reg)

(* What the call does with the registry it loaded: [reg, save, res]. *)
RegistryChange(c, reg) ==
    IF c.op = "register"
    THEN IF MapGet(reg, c.name) # {} /\ MapGet(reg, c.name) # {c.path}
         THEN [reg |-> reg, save |-> FALSE, res |-> "Conflict"]
         ELSE [reg |-> MapInsert(reg, c.name, c.path), save |-> TRUE, res |-> "Ok"]
    ELSE IF c.op = "unregister"
    THEN IF c.name \in DOMAIN reg
         THEN [reg |-> MapRemove(reg, c.name), save |-> TRUE, res |-> "Ok"]
         ELSE [reg |-> reg, save |-> FALSE, res |-> "Ok"]
    ELSE [reg |-> reg, save |-> FALSE,
          res |-> IF MapGet(reg, c.name) = {} THEN "NotFound" ELSE "Ok"]

ProcBegin(p) ==
    /\ pc[p] = "idle"
    /\ \E op \in RegistryOps, name \in Names, path \in Paths :
        cmd' = [cmd EXCEPT ![p] = [op |-> op, name |-> name, path |-> path]]
    /\ pc' = [pc EXCEPT ![p] = "load"]
    /\ UNCHANGED <<regVars, hostVars, config, backend, docker, locals, calls, result,
                   start0>>

(* load_registry and the change in memory *)
ProcLoad(p) ==
    /\ pc[p] = "load"
    /\ LET l == load_registry(file)
           c == RegistryChange(cmd[p], l.reg) IN
        /\ locals' = [locals EXCEPT ![p] = [seen |-> file,
                                            reg |-> IF l.ok THEN c.reg ELSE l.reg,
                                            after |-> {q \in Procs : pc[q] = "done"}]]
        /\ IF ~l.ok
           THEN /\ pc' = [pc EXCEPT ![p] = "done"]
                /\ result' = [result EXCEPT ![p] = "Corrupt"]
           ELSE IF c.save
           THEN /\ pc' = [pc EXCEPT ![p] = "save"]
                /\ UNCHANGED result
           ELSE /\ pc' = [pc EXCEPT ![p] = "done"]
                /\ result' = [result EXCEPT ![p] = c.res]
    /\ UNCHANGED <<regVars, hostVars, config, backend, docker, cmd, calls, start0>>

(* save_registry opens the file for writing, which empties it. *)
ProcTruncate(p) ==
    /\ pc[p] = "save"
    /\ file' = FileTruncated
    /\ pc' = [pc EXCEPT ![p] = "write"]
    /\ UNCHANGED <<bound, removed, last, prevFile, hostVars, config, backend, docker,
                   cmd, locals, calls, result, start0>>

(* save_registry writes the JSON and the call returns. *)
ProcWrite(p) ==
    /\ pc[p] = "write"
    /\ file' = fs_write(file, locals[p].reg)
    /\ pc' = [pc EXCEPT ![p] = "done"]
    /\ calls' = Append(calls, p)
    /\ result' = [result EXCEPT ![p] = "Ok"]
    /\ UNCHANGED <<bound, removed, last, prevFile, hostVars, config, backend, docker,
                   cmd, locals, start0>>

(* ---- docker_exec_interactive_shell of the docker CLI ---- *)

(* How `docker exec -it <container> <shell> -l` can end. *)
CliShellOutcomes(st) ==
    (IF st = "Running" THEN {"exit0", "exit_nonzero", "unavailable"} ELSE {})
        \cup {"refused", "nospawn"}

(* bash: any outcome but exit status zero leads to the sh attempt. *)
CliInteractiveBash ==
    /\ pc = "cli_bash"
    /\ \E o \in CliShellOutcomes(docker[locals.container]) :
        /\ calls' = Append(calls, Call("docker exec -it", locals.container, o,
                                       "/bin/bash"))
        /\ IF o = "exit0" THEN Return("Ok")
           ELSE pc' = "cli_sh" /\ UNCHANGED result
    /\ UNCHANGED <<regVars, hostVars, config, backend, docker, cmd, locals, start0>>

CliInteractiveSh ==
    /\ pc = "cli_sh"
    /\ \E o \in CliShellOutcomes(docker[locals.container]) :
        /\ calls' = Append(calls, Call("docker exec -it", locals.container, o,
                                       "/bin/sh"))
        /\ Return(IF o = "exit0" THEN "Ok" ELSE "Err")
    /\ UNCHANGED <<regVars, hostVars, config, backend, docker, cmd, locals, start0>>

(* ---- cmd_attach ---- *)

(* devenv attach in the unix build *)
BeginAttach ==
    /\ pc = "idle"
    /\ \E name \in NameArgs :
        cmd' = [op |-> "attach", name |-> name, platform |-> "unix"]
    /\ pc' = "attach_resolve"
    /\ locals' = NoLocals
    /\ calls' = <<>>
    /\ result' = "none"
    /\ start0' = docker
    /\ \E size \in WindowSizes : session' = [NoSession EXCEPT !.size = size]
    /\ UNCHANGED <<regVars, dockerfile, terminal, config, backend, docker>>

(* Where cmd_attach goes once it knows whether the container exists. *)
AttachAfterExistsQuery(exists) == IF exists THEN "attach_running" ELSE "done"

(* cmd_attach attaching to whatever exists. *)
AttachAfterRunningQuery_any(running) == "attach_shell"

(* Where cmd_attach goes once it knows whether the container runs. *)
AttachAfterRunningQuery(running) == IF running THEN "attach_shell" ELSE "done"

AttachResolve ==
    /\ pc = "attach_resolve"
    /\ LET e == effective_name(cmd.name) IN
       IF ~e.ok THEN Return("Err") /\ UNCHANGED locals
       ELSE /\ locals' = [locals EXCEPT !.env = e.name, !.container = Target(e.name),
                                        !.i = 1]
            /\ pc' = "attach_exists"
            /\ UNCHANGED result
    /\ UNCHANGED <<regVars, hostVars, config, backend, docker, cmd, calls, start0>>

AttachQueryExists ==
    /\ pc = "attach_exists"
    /\ \E o \in Outcomes("container_exists", docker[locals.container], FALSE) :
        LET q == container_exists(locals.container, o) IN
        /\ calls' = Append(calls, Call("container_exists", locals.container, o, "none"))
        /\ IF q.err \/ AttachAfterExistsQuery(q.val) = "done" THEN Return("Err")
           ELSE pc' = AttachAfterExistsQuery(q.val) /\ UNCHANGED result
    /\ UNCHANGED <<regVars, hostVars, config, backend, docker, cmd, locals, start0>>

(* The shell is docker_exec_interactive_shell of the docker module in use. *)
AttachQueryRunning ==
    /\ pc = "attach_running"
    /\ \E o \in Outcomes("is_container_running", docker[locals.container], FALSE) :
        LET q == is_container_running(locals.container, o) IN
        /\ calls' = Append(calls, Call("is_container_running", locals.container, o,
                                       IF ~q.err /\ q.val THEN "true" ELSE "none"))
        /\ IF q.err \/ AttachAfterRunningQuery(q.val) = "done" THEN Return("Err")
           ELSE /\ pc' = IF backend = "api" THEN "ix_enable" ELSE "cli_bash"
                /\ UNCHANGED result
    /\ UNCHANGED <<regVars, hostVars, config, backend, docker, cmd, locals, start0>>

(* The command has returned and the process ends; the next command starts  *)
(* from what the runtime and the files hold.                               *)
Finish ==
    /\ pc = "done"
    /\ pc' = "idle"
    /\ cmd' = NoCommand
    /\ locals' = NoLocals
    /\ calls' = <<>>
    /\ result' = "none"
    /\ start0' = docker
    /\ UNCHANGED <<regVars, hostVars, config, backend, docker>>

LifecycleConfigs ==
    {Config(name, ncmds, zed, "none", "none", FALSE) :
        name \in Names, ncmds \in 0 .. MaxCommands, zed \in BOOLEAN}

InitLifecycle ==
    /\ file = save_registry(MapInsert(EmptyRegistry, 1, 1))
    /\ bound = [n \in Names |-> IF n = 1 THEN {1} ELSE {}]
    /\ removed = {}
    /\ last = NoCall
    /\ prevFile = file
    /\ config \in {{}} \cup {{c} : c \in LifecycleConfigs}
    /\ backend \in {"cli", "api"}
    /\ docker \in [ContainerNames -> States]
    /\ cmd = NoCommand
    /\ pc = "idle"
    /\ locals = NoLocals
    /\ calls = <<>>
    /\ result = "none"
    /\ start0 = docker
    /\ dockerfile = "expected"
    /\ terminal = "cooked"
    /\ session = NoSession

NextLifecycle ==
    \/ BeginStart
    \/ StartResolve
    \/ StartDockerfile
    \/ StartBuild
    \/ StartQueryRunning
    \/ StartQueryExists
    \/ StartContainer
    \/ StartRunDetached
    \/ StartProvision
    \/ StartSshd
    \/ StartKeys
    \/ StartFinish
    \/ BeginStop
    \/ StopResolve
    \/ StopQueryExists
    \/ StopQueryRunning
    \/ StopContainer
    \/ BeginRemove
    \/ RemoveResolve
    \/ RemoveQueryExists
    \/ RemoveQueryRunning
    \/ RemoveStop
    \/ RemoveContainer
    \/ RemoveUnregister
    \/ Finish

SpecLifecycle == InitLifecycle /\ [][NextLifecycle]_vars

(* devenv start on a project named 1 whose devenv.toml sets user_name,   *)
(* zed_remote.ssh_user and provision_as_non_root in every combination,    *)
(* no other environment having a container.                               *)
ProvisionConfigs ==
    {Config(1, ncmds, FALSE, user_name, ssh_user, as_non_root) :
        ncmds \in 0 .. MaxCommands, user_name \in Users, ssh_user \in Users,
        as_non_root \in BOOLEAN}

InitProvision ==
    /\ file = save_registry(MapInsert(EmptyRegistry, 1, 1))
    /\ bound = [n \in Names |-> IF n = 1 THEN {1} ELSE {}]
    /\ removed = {}
    /\ last = NoCall
    /\ prevFile = file
    /\ config \in {{c} : c \in ProvisionConfigs}
    /\ backend \in {"cli", "api"}
    /\ docker \in {d \in [ContainerNames -> States] :
                      \A n \in Names \ {1} : d[ContainerName(n)] = "Absent"}
    /\ cmd = NoCommand
    /\ pc = "idle"
    /\ locals = NoLocals
    /\ calls = <<>>
    /\ result = "none"
    /\ start0 = docker
    /\ dockerfile = "expected"
    /\ terminal = "cooked"
    /\ session = NoSession

(* The start sequence, from resolving the environment on. *)
StartSequence ==
    \/ StartResolve
    \/ StartDockerfile
    \/ StartBuild
    \/ StartQueryRunning
    \/ StartQueryExists
    \/ StartContainer
    \/ StartRunDetached
    \/ StartProvision
    \/ StartSshd
    \/ StartKeys
    \/ StartFinish

(* devenv restart, one invocation after another *)
NextRestart ==
    \/ BeginRestart
    \/ RestartResolve
    \/ RestartQueryExists
    \/ RestartQueryRunning
    \/ RestartStop
    \/ RestartStart
    \/ StartSequence
    \/ Finish

SpecRestart == InitLifecycle /\ [][NextRestart]_vars

(* devenv start, one invocation after another *)
NextProvision ==
    \/ BeginStart
    \/ StartSequence
    \/ Finish

SpecProvision == InitProvision /\ [][NextProvision]_vars

(* One call of docker_exec_shell / docker_exec_shell_as after another *)
NextExec ==
    \/ BeginExec
    \/ ExecBash
    \/ ExecSh
    \/ Finish

SpecExec == InitLifecycle /\ [][NextExec]_vars

(* One call of docker_build_with_opts after another *)
NextBuild ==
    \/ BeginBuild
    \/ BuildLaunch
    \/ BuildEvent
    \/ BuildReturn
    \/ Finish

SpecBuild == InitLifecycle /\ [][NextBuild]_vars

(* devenv init, build and start over one project directory whose          *)
(* Dockerfile is missing, as rendered, edited by hand or unreadable; the   *)
(* project is registered under name 1, or the registry is missing or      *)
(* corrupt.                                                               *)
FileConfigs == {Config(InitPath, ncmds, zed, "none", "none", FALSE) :
                   ncmds \in 0 .. 1, zed \in BOOLEAN}

InitFiles ==
    /\ file \in {save_registry(MapInsert(EmptyRegistry, 1, InitPath)),
                 FileMissing, FileGarbage}
    /\ bound = [n \in Names |-> IF n = 1 /\ file.kind = "text" THEN {InitPath} ELSE {}]
    /\ removed = {}
    /\ last = NoCall
    /\ prevFile = file
    /\ config \in {{}} \cup {{c} : c \in FileConfigs}
    /\ backend \in {"cli", "api"}
    /\ docker \in {d \in [ContainerNames -> States] :
                     \A n \in Names \ {1} : d[ContainerName(n)] = "Absent"}
    /\ cmd = NoCommand
    /\ pc = "idle"
    /\ locals = NoLocals
    /\ calls = <<>>
    /\ result = "none"
    /\ start0 = docker
    /\ dockerfile \in DockerfileStates
    /\ terminal = "cooked"
    /\ session = NoSession

NextDockerfile ==
    \/ BeginStartRebuild
    \/ StartSequence
    \/ BeginCmdBuild
    \/ CmdBuildResolve
    \/ CmdBuildDockerfile
    \/ CmdBuildImage
    \/ BeginCmdInit
    \/ CmdInitConfig
    \/ CmdInitDockerfile
    \/ CmdInitRegister
    \/ CmdInitBuild
    \/ Finish

SpecDockerfile == InitFiles /\ [][NextDockerfile]_vars

(* The renderings of one config by devenv start and devenv build, run one *)
(* after the other on a project directory.                                *)
InitRender ==
    /\ file = FileMissing
    /\ bound = [n \in Names |-> {}]
    /\ removed = {}
    /\ last = NoCall
    /\ prevFile = file
    /\ config = {}
    /\ backend = "cli"
    /\ docker = [c \in ContainerNames |-> "Absent"]
    /\ cmd = NoCommand
    /\ pc = "idle"
    /\ locals = NoLocals
    /\ calls = <<>>
    /\ result = "none"
    /\ start0 = docker
    /\ dockerfile \in DockerfileStates \ {"expected"}
    /\ terminal = "cooked"
    /\ session = NoSession

NextRender ==
    \/ BeginRender
    \/ RenderStart
    \/ RenderBuild
    \/ RenderDone
    \/ Finish

SpecRender == InitRender /\ [][NextRender]_vars

(* devenv attach over the API: interactive shells in the containers, one  *)
(* after another; only the container of name 1 may exist.                 *)
InitAttach ==
    /\ file = save_registry(MapInsert(EmptyRegistry, 1, 1))
    /\ bound = [n \in Names |-> IF n = 1 THEN {1} ELSE {}]
    /\ removed = {}
    /\ last = NoCall
    /\ prevFile = file
    /\ config = {NoConfig}
    /\ backend = "api"
    /\ docker \in {d \in [ContainerNames -> States] :
                     \A n \in Names \ {1} : d[ContainerName(n)] = "Absent"}
    /\ cmd = NoCommand
    /\ pc = "idle"
    /\ locals = NoLocals
    /\ calls = <<>>
    /\ result = "none"
    /\ start0 = docker
    /\ dockerfile = "expected"
    /\ terminal = "cooked"
    /\ session = NoSession

NextAttach ==
    \/ BeginInteractive
    \/ InteractiveEnable
    \/ InteractiveCreate
    \/ InteractiveStart
    \/ OutPump
    \/ InPump
    \/ WindowChange
    \/ ResizeWatcher
    \/ InteractiveJoin
    \/ InteractiveInspect
    \/ Finish

SpecAttach == InitAttach /\ [][NextAttach]_vars

(* Two CLI processes, each making one call of the registry, their steps   *)
(* interleaved.  calls holds the processes in the order of their writes.  *)
InitRace ==
    /\ file \in {FileMissing, save_registry(MapInsert(EmptyRegistry, 1, 1))}
    /\ bound = [n \in Names |-> IF n = 1 /\ file.kind = "text" THEN {1} ELSE {}]
    /\ removed = {}
    /\ last = NoCall
    /\ prevFile = file
    /\ config = {}
    /\ backend = "cli"
    /\ docker = [c \in ContainerNames |-> "Absent"]
    /\ cmd = [p \in Procs |-> [op |-> "none", name |-> 1, path |-> 1]]
    /\ pc = [p \in Procs |-> "idle"]
    /\ locals = [p \in Procs |-> NoProcLocals]
    /\ calls = <<>>
    /\ result = [p \in Procs |-> "none"]
    /\ start0 = docker
    /\ dockerfile = "missing"
    /\ terminal = "cooked"
    /\ session = NoSession

NextRace ==
    \E p \in Procs :
        \/ ProcBegin(p)
        \/ ProcLoad(p)
        \/ ProcTruncate(p)
        \/ ProcWrite(p)

SpecRace == InitRace /\ [][NextRace]_vars

(* devenv attach, one invocation after another, with either docker module; *)
(* the project is the registered one and only its container may exist.    *)
AttachConfigs == {Config(1, 0, FALSE, "none", "none", FALSE)}

InitAttachCmd ==
    /\ file = save_registry(MapInsert(EmptyRegistry, 1, 1))
    /\ bound = [n \in Names |-> IF n = 1 THEN {1} ELSE {}]
    /\ removed = {}
    /\ last = NoCall
    /\ prevFile = file
    /\ config \in {{}} \cup {{c} : c \in AttachConfigs}
    /\ backend \in {"cli", "api"}
    /\ docker \in {d \in [ContainerNames -> States] :
                     \A n \in Names \ {1} : d[ContainerName(n)] = "Absent"}
    /\ cmd = NoCommand
    /\ pc = "idle"
    /\ locals = NoLocals
    /\ calls = <<>>
    /\ result = "none"
    /\ start0 = docker
    /\ dockerfile = "expected"
    /\ terminal = "cooked"
    /\ session = NoSession

NextAttachCmd ==
    \/ BeginAttach
    \/ AttachResolve
    \/ AttachQueryExists
    \/ AttachQueryRunning
    \/ CliInteractiveBash
    \/ CliInteractiveSh
    \/ InteractiveEnable
    \/ InteractiveCreate
    \/ InteractiveStart
    \/ OutPump
    \/ InPump
    \/ WindowChange
    \/ ResizeWatcher
    \/ InteractiveJoin
    \/ InteractiveInspect
    \/ Finish

SpecAttachCmd == InitAttachCmd /\ [][NextAttachCmd]_vars

---------------------------------------------------------------------------
(* Registry properties, checked under Spec *)

(* C1: a register_env(name, path2) that follows a successful              *)
(* register_env(name, path1), path1 # path2, fails with the conflict      *)
(* error, writes nothing, leaves the file as it was, and the registry     *)
(* still maps name to path1.                                              *)
C1_ConflictRejected ==
    (last.op = "register" /\ last.was # {} /\ last.was # last.path)
        => /\ last.res = "Conflict"
           /\ ~last.wrote
           /\ file = prevFile
           /\ lookup_env(file, last.name) = [res |-> "Ok", path |-> last.was]

C1_Witness ==
    /\ last.op = "register"
    /\ last.was # {}
    /\ last.was # last.path
    /\ last.res = "Conflict"

(* C2: register_env(name, path) after a successful register_env(name,     *)
(* path) succeeds again and the registry content is what it was after the *)
(* first call.                                                            *)
C2_RegisterIdempotent ==
    (last.op = "register" /\ last.was = last.path)
        => /\ last.res = "Ok"
           /\ file = prevFile

C2_Witness ==
    /\ last.op = "register"
    /\ last.was = last.path
    /\ last.res = "Ok"
    /\ Len(file.entries) = NumNames

(* The names of the members of the file, in order. *)
EntryNames(f) == [i \in 1 .. Len(f.entries) |-> f.entries[i][1]]

(* C3: the registry holds at most one entry per name, and no single call  *)
(* changes the path a name is bound to: a name bound before a call is     *)
(* bound to the same path after it unless the call is                     *)
(* unregister_env(name).                                                  *)
C3_OneBindingPerName ==
    /\ \A i, j \in 1 .. Len(file.entries) :
           EntryNames(file)[i] = EntryNames(file)[j] => i = j
    /\ \A n \in Names :
           (/\ lookup_env(prevFile, n).res = "Ok"
            /\ ~(last.op = "unregister" /\ last.name = n))
               => lookup_env(file, n) = lookup_env(prevFile, n)

C3_Witness ==
    /\ last.op = "register"
    /\ last.res = "Conflict"
    /\ Len(file.entries) = NumNames
    /\ \A n \in Names : lookup_env(prevFile, n).res = "Ok"

(* C4: lookup_env(name) after a successful register_env(name, path) with  *)
(* no unregister_env(name) in between returns path, and register_env      *)
(* leaves the lookup of every other name as it was.                       *)
C4_RegisterLookupRoundTrip ==
    /\ (last.op = "lookup" /\ last.was # {})
           => (last.res = "Ok" /\ last.ret = last.was)
    /\ last.op = "register"
           => \A n \in Names \ {last.name} :
                  lookup_env(file, n) = lookup_env(prevFile, n)

C4_Witness ==
    /\ last.op = "lookup"
    /\ last.was # {}
    /\ last.res = "Ok"
    /\ last.ret = last.was
    /\ Len(file.entries) = NumNames

(* C5: unregister_env of a registered name returns true, and every        *)
(* lookup_env of that name fails with not-found until the name is         *)
(* registered again.                                                      *)
C5_UnregisterThenNotFound ==
    /\ (last.op = "unregister" /\ last.was # {})
           => (last.res = "Ok" /\ last.ret = {TRUE})
    /\ (last.op = "lookup" /\ last.wasRemoved)
           => (last.res = "NotFound" /\ last.ret = {})
    /\ \A n \in removed : lookup_env(file, n).res = "NotFound"

C5_Witness ==
    /\ last.op = "lookup"
    /\ last.wasRemoved
    /\ last.res = "NotFound"

(* C6: unregister_env of a name that is not in the registry returns false *)
(* without error, does not write the file and leaves it as it was.        *)
C6_UnregisterAbsent ==
    (/\ last.op = "unregister"
     /\ load_registry(prevFile).ok
     /\ last.name \notin DOMAIN load_registry(prevFile).reg)
        => /\ last.res = "Ok"
           /\ last.ret = {FALSE}
           /\ ~last.wrote
           /\ file = prevFile

C6_Witness ==
    /\ last.op = "unregister"
    /\ last.ret = {FALSE}
    /\ prevFile.kind = "text"
    /\ Len(prevFile.entries) > 0
    /\ last.was = {}

C6_WitnessMissing ==
    /\ last.op = "unregister"
    /\ last.ret = {FALSE}
    /\ prevFile.kind = "missing"
    /\ file.kind = "missing"

Malformed(f) == f.kind \in {"garbage", "unreadable"}

(* The first half of C7: a missing file is read as the empty registry by  *)
(* every call.                                                            *)
C7_MissingIsEmpty ==
    (last.op # "none" /\ prevFile.kind = "missing")
        => /\ last.op = "lookup" => last.res = "NotFound"
           /\ last.op = "register" => (last.res = "Ok" /\ file.kind = "text")
           /\ last.op = "unregister" => (last.res = "Ok" /\ last.ret = {FALSE})

(* C7: a missing file is read as the empty registry by every call, and a  *)
(* file with malformed content makes register_env, lookup_env and         *)
(* unregister_env each fail with an error and is left as it is.           *)
C7_MalformedRejected ==
    /\ C7_MissingIsEmpty
    /\ (last.op # "none" /\ Malformed(prevFile))
           => (last.res = "Corrupt" /\ file = prevFile)

(* What the code does keep of C7: text that is not the JSON of a Registry *)
(* makes every call fail and is left as it is.                            *)
C7_GarbageRejected ==
    (last.op # "none" /\ prevFile.kind = "garbage")
        => (last.res = "Corrupt" /\ file = prevFile)

---------------------------------------------------------------------------
(* Lifecycle properties, checked under SpecLifecycle.                      *)
(*                                                                         *)
(* They are read at the calls the running command has made so far, and at  *)
(* pc = "done" on what it returned.                                        *)

Count(fn) == Len(SelectSeq(calls, LAMBDA e : e.fn = fn))

Resolved == locals.container # NoContainer

(* Every state query the command made was answered by the runtime. *)
QueriesAnswered ==
    \A i \in 1 .. Len(calls) : calls[i].fn \in Queries => calls[i].outcome = "ok"

(* Every build, query and container transition the command made succeeded. *)
RuntimeCallsOk ==
    \A i \in 1 .. Len(calls) :
        calls[i].fn \in Queries \cup {"build", "start", "stop", "remove", "run_detached"}
            => calls[i].outcome = "ok"

C8_WitnessStopped ==
    /\ pc = "done"
    /\ cmd.op = "start"
    /\ Resolved
    /\ start0[locals.container] = "Stopped"
    /\ Count("start") = 1
    /\ RuntimeCallsOk
    /\ docker[locals.container] = "Running"
    /\ result = "Ok"

C10_Stop ==
    (pc = "done" /\ cmd.op = "stop" /\ Resolved /\ QueriesAnswered)
        => LET c == locals.container IN
           /\ start0[c] = "Running"
                  => /\ Count("stop") = 1
                     /\ RuntimeCallsOk
                            => (docker[c] = "Stopped" /\ result = "Ok")
                     /\ \A d \in ContainerNames \ {c} : docker[d] = start0[d]
           /\ start0[c] # "Running"
                  => /\ Count("stop") = 0
                     /\ result = "Ok"
                     /\ docker = start0

C10_Witness ==
    /\ pc = "done"
    /\ cmd.op = "stop"
    /\ Resolved
    /\ start0[locals.container] = "Running"
    /\ Count("stop") = 1
    /\ docker[locals.container] = "Stopped"
    /\ result = "Ok"

C10_WitnessNotRunning ==
    /\ pc = "done"
    /\ cmd.op = "stop"
    /\ Resolved
    /\ start0[locals.container] = "Stopped"
    /\ Count("stop") = 0
    /\ Count("is_container_running") = 1
    /\ result = "Ok"

(* The positions in the log of the calls to fn. *)
At(fn) == {i \in 1 .. Len(calls) : calls[i].fn = fn}

(* The functions called so far, in order. *)
CallNames == [i \in 1 .. Len(calls) |-> calls[i].fn]

(* The name the running stop, remove or restart runs under. *)
EnvName == CHOOSE n \in locals.env : TRUE

C11_WitnessStopped ==
    /\ pc = "done"
    /\ cmd.op = "remove"
    /\ Resolved
    /\ start0[locals.container] = "Stopped"
    /\ CallNames = <<"container_exists", "is_container_running",
                     "remove", "unregister_env">>
    /\ RuntimeCallsOk
    /\ docker[locals.container] = "Absent"
    /\ result = "Ok"

(* C12: with the state query answered, remove on an Absent container      *)
(* issues neither stop nor remove to the runtime and changes no           *)
(* container, and still attempts the registry unregistration, which       *)
(* succeeds whether or not the name was registered.                       *)
C12_RemoveAbsent ==
    (cmd.op = "remove" /\ Resolved /\ QueriesAnswered
         /\ start0[locals.container] = "Absent")
        => /\ At("stop") = {}
           /\ At("remove") = {}
           /\ docker = start0
           /\ pc = "done"
                  => /\ CallNames = <<"container_exists", "unregister_env">>
                     /\ calls[2].arg \in {"Ok(true)", "Ok(false)"}
                     /\ lookup_env(file, EnvName).res = "NotFound"
                     /\ result = "Ok"

C12_Witness ==
    /\ pc = "done"
    /\ cmd.op = "remove"
    /\ Resolved
    /\ start0[locals.container] = "Absent"
    /\ CallNames = <<"container_exists", "unregister_env">>
    /\ calls[2].arg = "Ok(false)"
    /\ result = "Ok"

C12_WitnessRegistered ==
    /\ pc = "done"
    /\ cmd.op = "remove"
    /\ Resolved
    /\ start0[locals.container] = "Absent"
    /\ CallNames = <<"container_exists", "unregister_env">>
    /\ calls[2].arg = "Ok(true)"
    /\ result = "Ok"

(* C13: every runtime remove-container call that remove issues is a       *)
(* forced removal, docker rm -f.                                          *)
C13_RemoveForced ==
    cmd.op = "remove"
        => \A i \in At("remove") : calls[i].arg = ForceArg(TRUE)

(* What cmd_remove does instead: it never removes a container that still  *)
(* runs, because it stops a Running container first and gives up when the *)
(* stop fails.                                                            *)
C13_RemoveAfterStop ==
    (cmd.op = "remove" /\ Resolved /\ QueriesAnswered)
        => \A i \in At("remove") :
               /\ calls[i].arg = ForceArg(FALSE)
               /\ start0[locals.container] = "Running"
                      => \E j \in At("stop") : j < i /\ calls[j].outcome = "ok"

---------------------------------------------------------------------------
(* Restart properties, checked under SpecRestart *)

(* The container cmd_restart queried, and stops when it runs. *)
RestartContainer == calls[1].target

(* cmd_restart has made its first query. *)
Restarting == cmd.op = "restart" /\ Len(calls) > 0

(* What C14 says of one restart, about the container it queried. *)
RestartStopsThenStarts ==
    LET c == RestartContainer IN
    /\ start0[c] = "Running"
           => \A j \in At("cmd_start") :
                  \E i \in At("stop") : i < j /\ calls[i].outcome = "ok"
    /\ start0[c] # "Running" => At("stop") = {}
    /\ (pc = "done" /\ RuntimeCallsOk /\ result = "Ok") => docker[c] = "Running"

(* C14: with the state queries answered, restart on a Running container   *)
(* issues a runtime stop that has succeeded before the start sequence     *)
(* begins, restart on a Stopped or Absent container issues no stop, and   *)
(* in all three cases a restart whose runtime calls succeed leaves the    *)
(* container Running.                                                     *)
C14_Restart ==
    (Restarting /\ QueriesAnswered) => RestartStopsThenStarts

(* The same holds of every restart whose devenv.toml names the            *)
(* environment as the command does.                                       *)
C14_RestartSameName ==
    (Restarting /\ QueriesAnswered
         /\ \A c \in config : ContainerName(c.name) = RestartContainer)
        => RestartStopsThenStarts

C14_WitnessSameName ==
    /\ Restarting
    /\ pc = "done"
    /\ result = "Ok"
    /\ RuntimeCallsOk
    /\ start0[RestartContainer] = "Running"
    /\ locals.container = RestartContainer
    /\ At("stop") = {3}
    /\ At("start") # {}
    /\ docker[RestartContainer] = "Running"

(* The provisioning commands executed so far, by their position in       *)
(* provision.commands, in the order of their exec calls.                  *)
Provisioned ==
    LET execs == SelectSeq(calls, LAMBDA e : e.script > 0)
    IN  [k \in 1 .. Len(execs) |-> execs[k].script]

(* The whole list, in its order. *)
FullList == [k \in 1 .. locals.cfg.ncmds |-> k]

(* The runtime call that started or created the container succeeded, and  *)
(* every provisioning exec came after it.                                 *)
ProvisionedAfterStart ==
    \E j \in At("start") \cup At("run_detached") :
        /\ calls[j].outcome = "ok"
        /\ \A i \in 1 .. Len(calls) : calls[i].script > 0 => j < i

(* C15: with the state queries answered, a restart that returns success   *)
(* has, from every initial state of the container, started or created it  *)
(* and then executed the whole provisioning list in order.                *)
C15_RestartProvisions ==
    (Restarting /\ QueriesAnswered /\ pc = "done" /\ result = "Ok")
        => (Provisioned = FullList /\ ProvisionedAfterStart)

(* The same holds of every restart whose devenv.toml names the            *)
(* environment as the command does.                                       *)
C15_RestartSameName ==
    (Restarting /\ QueriesAnswered /\ pc = "done" /\ result = "Ok"
         /\ locals.container = RestartContainer)
        => (Provisioned = FullList /\ ProvisionedAfterStart)

C15_WitnessSameName ==
    /\ Restarting
    /\ QueriesAnswered
    /\ pc = "done"
    /\ result = "Ok"
    /\ locals.container = RestartContainer
    /\ start0[RestartContainer] = "Running"
    /\ Provisioned = <<1, 2>>

(* A successful start of a Stopped container has issued docker_start and  *)
(* then executed the whole provisioning list in order (SpecLifecycle).    *)
C15_StartStoppedProvisions ==
    (cmd.op = "start" /\ Resolved /\ QueriesAnswered /\ pc = "done"
         /\ result = "Ok" /\ start0[locals.container] = "Stopped")
        => (Provisioned = FullList /\ ProvisionedAfterStart /\ At("start") # {})

(* The stop that cmd_restart issued has failed. *)
RestartStopFailed ==
    /\ Restarting
    /\ \E i \in At("stop") : calls[i].outcome # "ok"

(* C16 as the specification states it: when the stop of a restart fails,  *)
(* the restart still goes on to the start sequence.                       *)
C16_StopBestEffort ==
    (RestartStopFailed /\ pc = "done") => At("cmd_start") # {}

(* C16: when the container is Running and the runtime stop of a restart   *)
(* fails, the restart returns that error at once: the failed stop is its  *)
(* last call, the start sequence is not begun and no container changes.   *)
C16_StopFailureAborts ==
    RestartStopFailed
        => /\ pc = "done"
           /\ result = "Err"
           /\ At("stop") = {Len(calls)}
           /\ At("cmd_start") = {}
           /\ docker = start0

C16_Witness ==
    /\ RestartStopFailed
    /\ QueriesAnswered
    /\ start0[RestartContainer] = "Running"
    /\ CallNames = <<"container_exists", "is_container_running", "stop">>
    /\ pc = "done"
    /\ result = "Err"

---------------------------------------------------------------------------
(* Provisioning, checked under SpecLifecycle *)

(* The positions in the log of the provisioning execs. *)
ProvisionExecs == {i \in 1 .. Len(calls) : calls[i].script > 0}

(* C17: the provisioning commands are executed one exec call each, in     *)
(* list order, a command only after the one before it has succeeded; and  *)
(* when the exec of a command fails, the start sequence returns the       *)
(* failure with that exec as its last call: no later command, sshd start, *)
(* key installation, IDE open or attach follows.                          *)
C17_ProvisionOrder ==
    cmd.op = "start"
        => /\ Len(Provisioned) <= locals.cfg.ncmds
           /\ \A k \in 1 .. Len(Provisioned) : Provisioned[k] = k
           /\ \A i, j \in ProvisionExecs : i < j => calls[i].outcome = "ok"
           /\ pc \in {"start_sshd", "start_keys", "start_finish"}
                  => Provisioned = FullList
           /\ \A i \in ProvisionExecs :
                  calls[i].outcome # "ok"
                      => (i = Len(calls) /\ pc = "done" /\ result = "Err")

C17_Witness ==
    /\ cmd.op = "start"
    /\ pc = "done"
    /\ result = "Err"
    /\ locals.cfg.ncmds = 2
    /\ locals.cfg.zed
    /\ cmd.attach
    /\ Provisioned = <<1>>
    /\ calls[Len(calls)].script = 1
    /\ calls[Len(calls)].outcome = "fail"

C17_WitnessSecond ==
    /\ cmd.op = "start"
    /\ pc = "done"
    /\ result = "Err"
    /\ locals.cfg.ncmds = 2
    /\ Provisioned = <<1, 2>>
    /\ calls[Len(calls)].script = 2
    /\ calls[Len(calls)].outcome = "fail"

C17_WitnessAll ==
    /\ cmd.op = "start"
    /\ pc = "start_sshd"
    /\ Provisioned = <<1, 2>>

(* The user devenv.toml designates: user_name, else zed_remote.ssh_user. *)
Designated(cfg) == IF cfg.user_name # "none" THEN cfg.user_name ELSE cfg.ssh_user

(* C18 (under SpecProvision): every provisioning command of one start     *)
(* runs as root, by a plain exec, unless provision_as_non_root is set and *)
(* the designated user exists and is not "root"; then every provisioning  *)
(* command runs as that user.                                             *)
C18_ProvisionUser ==
    cmd.op = "start"
        => LET cfg == locals.cfg
               asUser == /\ cfg.provision_as_non_root
                         /\ Designated(cfg) \notin {"none", "root"}
           IN  \A i \in ProvisionExecs :
                   IF asUser
                   THEN calls[i].fn = "exec_shell_as" /\ calls[i].arg = Designated(cfg)
                   ELSE calls[i].fn = "exec_shell" /\ calls[i].arg = "none"

C18_Witness ==
    /\ cmd.op = "start"
    /\ locals.cfg.provision_as_non_root
    /\ locals.cfg.user_name = "none"
    /\ locals.cfg.ssh_user = "dev"
    /\ Cardinality(ProvisionExecs) = 2
    /\ \A i \in ProvisionExecs : calls[i].fn = "exec_shell_as" /\ calls[i].arg = "dev"

C18_WitnessRootDesignated ==
    /\ cmd.op = "start"
    /\ locals.cfg.provision_as_non_root
    /\ locals.cfg.user_name = "root"
    /\ locals.cfg.ssh_user = "dev"
    /\ Cardinality(ProvisionExecs) = 2
    /\ \A i \in ProvisionExecs : calls[i].fn = "exec_shell"

C18_WitnessFlagUnset ==
    /\ cmd.op = "start"
    /\ ~locals.cfg.provision_as_non_root
    /\ locals.cfg.user_name = "dev"
    /\ Cardinality(ProvisionExecs) = 2
    /\ \A i \in ProvisionExecs : calls[i].fn = "exec_shell"

---------------------------------------------------------------------------
(* Failures of the runtime, checked under SpecLifecycle *)

(* The positions in the log of the state queries that failed. *)
FailedQueries ==
    {i \in 1 .. Len(calls) : calls[i].fn \in Queries /\ calls[i].outcome # "ok"}

(* The failed query at position i ended the command with an error. *)
Surfaced(i) == i = Len(calls) /\ pc = "done" /\ result = "Err"

(* C19: a state query (container_exists, is_container_running) that fails *)
(* ends the command with an error: it is the command's last call, so it   *)
(* is not taken for 'absent' or 'not running' and no create, start, stop  *)
(* or remove follows it.                                                  *)
C19_QueryFailureSurfaced ==
    \A i \in FailedQueries : Surfaced(i)

(* It holds of the API variant, and of the docker CLI variant when docker *)
(* cannot be spawned; a `docker ps` that exits with a failure is answered *)
(* false by the CLI variant.                                              *)
C19_ErrorsSurfaced ==
    \A i \in FailedQueries :
        (backend = "api" \/ calls[i].outcome = "nospawn") => Surfaced(i)

C19_TransitionAfterFailedQuery ==
    /\ backend = "cli"
    /\ cmd.op = "start"
    /\ Resolved
    /\ start0[locals.container] = "Running"
    /\ \E i \in FailedQueries :
           /\ calls[i].fn = "is_container_running"
           /\ \E j \in At("start") : i < j

(* The runtime transitions; docker_run_detached is create and start. *)
Transitions == {"run_detached", "start", "stop", "remove"}

(* C20: within one start, stop or remove, each runtime transition         *)
(* (create, start, stop, remove) is issued at most once, a container is   *)
(* not both created and started, and a transition that fails is the last  *)
(* call of the command, which returns the error: it is not issued again.  *)
C20_NoRetry ==
    cmd.op \in {"start", "stop", "remove"}
        => /\ \A fn \in Transitions : Cardinality(At(fn)) <= 1
           /\ Cardinality(At("start") \cup At("run_detached")) <= 1
           /\ \A i \in 1 .. Len(calls) :
                  (calls[i].fn \in Transitions /\ calls[i].outcome # "ok")
                      => (i = Len(calls) /\ pc = "done" /\ result = "Err")

C20_Witness ==
    /\ cmd.op = "remove"
    /\ Resolved
    /\ start0[locals.container] = "Running"
    /\ CallNames = <<"container_exists", "is_container_running", "stop">>
    /\ calls[3].outcome = "fail"
    /\ pc = "done"
    /\ result = "Err"
    /\ docker = start0

C20_WitnessStart ==
    /\ cmd.op = "start"
    /\ Resolved
    /\ At("start") = {Len(calls)}
    /\ calls[Len(calls)].outcome = "fail"
    /\ pc = "done"
    /\ result = "Err"

---------------------------------------------------------------------------
(* One-shot exec, checked under SpecExec *)

Executing == cmd.op \in {"exec_shell", "exec_shell_as"}

(* C21: the script is attempted under /bin/sh only if /bin/bash did not   *)
(* run it; when bash ran the script, whatever its exit status, the script *)
(* is executed once.                                                      *)
C21_ShOnlyWithoutBash ==
    Executing
        => \A j \in At("/bin/sh") : \A i \in At("/bin/bash") : ~Ran(calls[i].outcome)

(* What the code does: sh is attempted after every bash attempt that did  *)
(* not exit zero and did not return an error.                             *)
C21_ShAfterAnyFailure ==
    (Executing /\ pc = "done")
        => (At("/bin/sh") # {}
               <=> AttemptResult("/bin/bash", calls[1].outcome) = "false")

C21_ScriptRunTwice ==
    /\ Executing
    /\ pc = "done"
    /\ Len(calls) = 2
    /\ calls[1].fn = "/bin/bash" /\ calls[1].outcome = "exit_nonzero"
    /\ calls[2].fn = "/bin/sh" /\ Ran(calls[2].outcome)

(* C22: exec_shell / exec_shell_as returns success exactly when one of    *)
(* the shell invocations it attempted exited with status zero, and an     *)
(* error when the bash and the sh attempt both failed; bash is attempted  *)
(* first, sh at most once and only after bash.                            *)
C22_ExecResult ==
    Executing
        => /\ At("/bin/bash") = (IF calls = <<>> THEN {} ELSE {1})
           /\ At("/bin/sh") \subseteq {2}
           /\ Len(calls) <= 2
           /\ pc = "done"
                  => /\ result = "Ok"
                         <=> \E i \in 1 .. Len(calls) : calls[i].outcome = "exit0"
                     /\ result \in {"Ok", "Err"}

C22_Witness ==
    /\ Executing
    /\ pc = "done"
    /\ CallNames = <<"/bin/bash", "/bin/sh">>
    /\ calls[1].outcome = "unavailable"
    /\ calls[2].outcome = "exit_nonzero"
    /\ result = "Err"

C22_WitnessFallback ==
    /\ Executing
    /\ pc = "done"
    /\ CallNames = <<"/bin/bash", "/bin/sh">>
    /\ calls[1].outcome = "unavailable"
    /\ calls[2].outcome = "exit0"
    /\ result = "Ok"

---------------------------------------------------------------------------
(* Image build, checked under SpecBuild *)

(* The build was launched and the function has returned. *)
BuildReturned ==
    /\ cmd.op = "build_with_opts"
    /\ pc = "done"
    /\ calls # <<>>
    /\ calls[1].outcome = "ok"

(* The build lost the connection or ended with a non-zero result. *)
BuildFailed(b) ==
    \/ b.final = "nonzero"
    \/ \E i \in 1 .. Len(b.events) : b.events[i] = "transport_error"

(* The whole stream was consumed, whatever events it held. *)
BuildConsumed == Len(calls) = 1 + Len(cmd.build.events)

(* C23: a build that was launched consumes the event stream to its end,   *)
(* the error event of one step not ending it; build_with_opts returns an  *)
(* error when the build met a transport-level error or ended with a       *)
(* non-zero result, and success otherwise.                                *)
C23_BuildFailure ==
    BuildReturned
        => /\ BuildConsumed
           /\ result = "Err" <=> BuildFailed(cmd.build)

(* The docker CLI variant does so; the API variant consumes the stream    *)
(* and returns Ok whatever the stream held.                               *)
C23_BuildByVariant ==
    BuildReturned
        => /\ BuildConsumed
           /\ backend = "cli" => (result = "Err" <=> BuildFailed(cmd.build))
           /\ backend = "api" => result = "Ok"

C23_FailedBuildOk ==
    /\ BuildReturned
    /\ backend = "api"
    /\ cmd.build.events = <<"info", "transport_error">>
    /\ cmd.build.final = "nonzero"
    /\ result = "Ok"

(* C24: devenv start and devenv build without --rebuild leave an existing *)
(* Dockerfile as it is, writing it only when there is none; when the      *)
(* existing one differs from the rendered one they warn and change        *)
(* nothing.  Whenever they write, the file becomes the rendered one.      *)
DockerfileStepDone == cmd.op \in {"start", "build"} /\ locals.dockerfile0 # "none"

C24_NoSilentOverwrite ==
    DockerfileStepDone =>
        /\ (~cmd.rebuild /\ Exists(locals.dockerfile0)) =>
               (~locals.wrote /\ dockerfile = locals.dockerfile0)
        /\ (~cmd.rebuild /\ Differs(locals.dockerfile0)) => locals.warned
        /\ locals.wrote => (cmd.rebuild \/ ~Exists(locals.dockerfile0))
        /\ locals.wrote => dockerfile = "expected"

(* cmd_start found an edited Dockerfile, warned and left it. *)
C24_Witness ==
    /\ cmd.op = "start" /\ ~cmd.rebuild
    /\ locals.dockerfile0 = "edited"
    /\ locals.warned /\ ~locals.wrote
    /\ dockerfile = "edited"
    /\ result = "Ok"

(* cmd_build found an edited Dockerfile, warned and built from it. *)
C24_WitnessBuild ==
    /\ cmd.op = "build" /\ ~cmd.rebuild
    /\ locals.dockerfile0 = "edited"
    /\ locals.warned /\ dockerfile = "edited"
    /\ result = "Ok"

(* With --rebuild the edited Dockerfile is replaced by the rendered one. *)
C24_WitnessRebuild ==
    /\ cmd.op \in {"start", "build"} /\ cmd.rebuild
    /\ locals.dockerfile0 = "edited"
    /\ locals.wrote /\ dockerfile = "expected"

(* Without --rebuild the missing Dockerfile is written. *)
C24_WitnessMissing ==
    /\ cmd.op \in {"start", "build"} /\ ~cmd.rebuild
    /\ locals.dockerfile0 = "missing"
    /\ locals.wrote /\ dockerfile = "expected"

(* C25: generate_dockerfile is deterministic: renderings of equal configs *)
(* give the same text whatever command renders and whatever Dockerfile is *)
(* on disk, and the text is fixed by the image, the package list, the     *)
(* user the config names and its uid and gid.                             *)
RenderInputs(dev) ==
    <<dev.image, dev.packages, DockerfileUser(dev), dev.user_uid, dev.user_gid>>

Renderings == {i \in DOMAIN calls : calls[i].fn = "generate_dockerfile"}

RECURSIVE SplitLines(_, _)
SplitLines(text, line) ==
    IF text = <<>> THEN <<line>>
    ELSE IF Head(text) = "\n" THEN <<line>> \o SplitLines(Tail(text), <<>>)
    ELSE SplitLines(Tail(text), Append(line, Head(text)))

TextLines(text) == SplitLines(text, <<>>)

StartsWith(line, piece) == Len(line) >= 1 /\ line[1] = piece

IsSpace(piece) == piece = " "

NotSpace(piece) == ~IsSpace(piece)

ExtraInstalls(lines) ==
    {k \in DOMAIN lines : /\ Len(lines[k]) >= 3
                          /\ lines[k][1] = "RUN "
                          /\ lines[k][2] = InstallPrefix}

UserDirectives(lines) ==
    {k \in DOMAIN lines : \/ StartsWith(lines[k], "RUN (getent group ")
                          \/ StartsWith(lines[k], "RUN (id -u ")
                          \/ StartsWith(lines[k], "RUN mkdir -p /home/")}

HasLine(lines, line) == \E k \in DOMAIN lines : lines[k] = line

ContentOf(dev, lines) ==
    /\ IF dev.packages = <<>> THEN ExtraInstalls(lines) = {}
       ELSE /\ Cardinality(ExtraInstalls(lines)) = 1
            /\ \A k \in ExtraInstalls(lines) :
                  SelectSeq(SubSeq(lines[k], 3, Len(lines[k]) - 1), NotSpace)
                      = dev.packages
    /\ IF DockerfileUser(dev) \in {"none", "root"} THEN UserDirectives(lines) = {}
       ELSE LET user == DockerfileUser(dev) IN
            /\ Cardinality(UserDirectives(lines)) = 3
            /\ \E k \in DOMAIN lines :
                  /\ StartsWith(lines[k], "RUN (id -u ") /\ lines[k][2] = user
            /\ \E k \in DOMAIN lines :
                  /\ StartsWith(lines[k], "RUN mkdir -p /home/") /\ lines[k][2] = user
    /\ HasLine(lines, <<"FROM ", dev.image>>)
    /\ HasLine(lines, <<"RUN mkdir -p /root/.ssh && chmod 700 /root/.ssh">>)
    /\ HasLine(lines, <<"WORKDIR /workspace">>)
    /\ HasLine(lines, <<"CMD [\"/bin/sh\", \"-lc\", \"tail -f /dev/null\"]">>)

C26_RenderContent ==
    \A i \in Renderings : ContentOf(calls[i].arg, TextLines(calls[i].out))

(* Packages git and make and no user: one directive installing git make   *)
(* and no directive for a user.                                           *)
C26_Witness ==
    \E i \in Renderings :
        LET lines == TextLines(calls[i].out) IN
        /\ calls[i].arg.packages = <<"git", "make">>
        /\ DockerfileUser(calls[i].arg) = "none"
        /\ HasLine(lines, <<"RUN ", InstallPrefix, "git", " ", "make", ") || true">>)
        /\ Cardinality(ExtraInstalls(lines)) = 1
        /\ UserDirectives(lines) = {}

(* The user comes from zed_remote.ssh_user and has the default ids. *)
C26_WitnessSshUser ==
    \E i \in Renderings :
        LET lines == TextLines(calls[i].out) IN
        /\ calls[i].arg.user_name = "none" /\ calls[i].arg.ssh_user = "dev"
        /\ calls[i].arg.user_uid = {} /\ calls[i].arg.user_gid = {}
        /\ HasLine(lines, <<"RUN (getent group ", "1000", " || groupadd -g ", "1000",
                            " ", "dev", ") || true">>)
        /\ Cardinality(UserDirectives(lines)) = 3

(* user_name root stands before a non-root ssh_user: no user is created. *)
C26_WitnessRootFirst ==
    \E i \in Renderings :
        /\ calls[i].arg.user_name = "root" /\ calls[i].arg.ssh_user = "dev"
        /\ UserDirectives(TextLines(calls[i].out)) = {}

Interactive == cmd.op = "exec_interactive_shell"

AttemptInProgress ==
    Interactive /\ pc \in {"ix_create", "ix_start", "ix_attached", "ix_inspect"}

Failed(fn) ==
    \E i \in At(fn) : calls[i].outcome \notin {"ok", "exit0", "exit_nonzero", "unavailable"}

(* C27: the terminal is raw only while an attempt of the interactive exec *)
(* is in progress: it is in line mode between the bash and the sh attempt *)
(* and whenever exec_interactive_shell has returned, with or without an   *)
(* error.                                                                 *)
C27_TerminalRestored ==
    /\ terminal = "raw" => AttemptInProgress
    /\ pc \in {"idle", "ix_enable", "done"} => terminal = "cooked"

(* The call returned an error from create_exec after the terminal went    *)
(* raw.                                                                   *)
C27_Witness ==
    /\ Interactive /\ pc = "done" /\ result = "Err"
    /\ At("enable_raw_mode") # {} /\ ~Failed("enable_raw_mode")
    /\ Failed("create_exec")
    /\ terminal = "cooked"

C27_WitnessRaw == AttemptInProgress /\ terminal = "raw" /\ pc = "ix_attached"

C27_WitnessStartError ==
    Interactive /\ pc = "done" /\ Failed("start_exec") /\ terminal = "cooked"

C27_WitnessInspectError ==
    Interactive /\ pc = "done" /\ Failed("inspect_exec") /\ terminal = "cooked"

C27_WitnessFallback ==
    Interactive /\ pc = "ix_enable" /\ locals.i = 2 /\ terminal = "cooked"

C27_WitnessBothFailed ==
    /\ Interactive /\ pc = "done" /\ result = "Err" /\ locals.i = 2
    /\ Count("inspect_exec") = 2 /\ ~Failed("inspect_exec")
    /\ terminal = "cooked"

C27_WitnessCompleted ==
    Interactive /\ pc = "done" /\ result = "Ok" /\ terminal = "cooked"

Attached == Interactive /\ pc = "ix_attached" /\ session.state = "attached"

BothCompleted == session.closed /\ (session.eof \/ session.inp = "done")

PumpErrored == session.out_err \/ session.in_err

(* C28: the attached session ends when both pumps have completed, or when *)
(* either pump meets an error: from then on the join of the two tasks can *)
(* return, and before it cannot.  An error item on the remote output ends *)
(* the session.                                                           *)
C28_SessionEndRule ==
    Attached => (JoinReady(session) <=> (BothCompleted \/ PumpErrored))

(* The join returns exactly when both pumps have completed. *)
C28_EndsWhenBothCompleted ==
    Attached => (JoinReady(session) <=> BothCompleted)

(* The output pump met an error item and runs on; the session goes on. *)
C28_ErrorItemPassedOver ==
    Attached /\ session.out_err /\ session.out = "running" /\ ~JoinReady(session)

(* C29: the completion of either pump ends the session: once the remote   *)
(* output is closed, or once stdin is at its end, the join of the two     *)
(* tasks can return without a further step of the other pump.             *)
C29_EitherPumpEnds ==
    Attached => ((session.out = "done" \/ session.inp = "done") => JoinReady(session))

(* The remote output is closed and the session waits for stdin. *)
C29_WaitsForStdin ==
    Attached /\ session.closed /\ session.inp = "running" /\ ~JoinReady(session)

(* Stdin is at its end and the session waits for the remote output. *)
C29_WaitsForRemote ==
    Attached /\ session.eof /\ session.out = "running" /\ ~JoinReady(session)

SessionEnded == Interactive /\ session.state = "ended"

(* C30: once the attached session has ended the resize watcher does not   *)
(* run, whichever pump finished first and whatever the watcher did during *)
(* the session, and no resize is forwarded from then on.                  *)
C30_WatcherCancelled ==
    /\ SessionEnded => session.watcher \in {"aborted", "ended"}
    /\ ~session.late

(* The watcher forwarded resizes during the session and was aborted at    *)
(* its end.                                                               *)
C30_Witness ==
    /\ SessionEnded
    /\ session.watcher = "aborted"
    /\ session.resizes > 0
    /\ ~session.late

(* C31: the output pump writes to the local stdout the bytes the remote   *)
(* output delivers, all of them, once each and in the order received, and *)
(* it has terminated when the remote output has closed.                   *)
C31_OutputPump ==
    Interactive =>
        /\ session.stdout = session.received
        /\ session.closed => session.out = "done"

(* The remote output delivered two different messages and closed; the     *)
(* pump wrote them in order and ended.                                    *)
C31_Witness ==
    /\ Interactive
    /\ session.closed /\ session.out = "done"
    /\ session.received = <<"b", "a">>
    /\ session.stdout = <<"b", "a">>
    /\ ~session.out_err

(* The same message twice is written twice. *)
C31_WitnessRepeated ==
    Interactive /\ session.out = "done" /\ session.stdout = <<"a", "a">>

Established == Interactive /\ session.state # "none"

(* The first resize event is the initial one, nothing else is, and        *)
(* neither pump has taken anything before it.                             *)
InitialResizeFirst ==
    /\ Established =>
          /\ session.events # <<>>
          /\ session.events[1].by = "initial"
          /\ \A k \in 2 .. Len(session.events) : session.events[k].by = "watcher"
    /\ (Interactive /\ session.events = <<>>) =>
          (session.items = 0 /\ session.reads = 0 /\ session.out = "none"
             /\ session.inp = "none")

(* In the unix build every window-change signal that reached the watcher  *)
(* has been answered by one resize event, but for the one that waits.     *)
EveryNotificationForwarded ==
    (Established /\ cmd.platform = "unix" /\ session.watcher = "running") =>
        /\ session.resizes + (IF session.winch THEN 1 ELSE 0) = session.notified
        /\ ~session.winch => session.events[Len(session.events)].size = session.size

C32_WitnessFirstPoll ==
    /\ Established /\ cmd.platform = "windows"
    /\ Len(session.events) = 2
    /\ session.events[2].by = "watcher"
    /\ session.events[2].size = session.events[1].size
    /\ session.changes = 0

(* The polling watcher sent three sizes, the later ones on a change. *)
C32_WitnessPolled ==
    /\ Established /\ cmd.platform = "windows"
    /\ Len(session.events) = 4
    /\ session.events[3].size # session.events[2].size
    /\ session.events[4].size # session.events[3].size

(* The attempts of the interactive exec that came to an end, by shell. *)
SessionsOf(shell) ==
    {i \in At("inspect_exec") : calls[i].arg = shell}

Attempted(shell) == \E i \in At("enable_raw_mode") : calls[i].arg = shell

(* C33: an interactive session under /bin/sh is started only if /bin/bash *)
(* is not available in the container; after a bash session that the user  *)
(* ended, whatever its exit status, no sh session is started.             *)
C33_ShOnlyWithoutBash ==
    (Interactive /\ Attempted("/bin/sh"))
        => \A i \in SessionsOf("/bin/bash") : calls[i].outcome = "unavailable"

(* What the code does: the sh attempt follows every bash attempt that     *)
(* ended with a status other than zero.                                   *)
C33_ShAfterAnyNonZero ==
    (Interactive /\ pc = "done")
        => (Attempted("/bin/sh")
              <=> \E i \in SessionsOf("/bin/bash") :
                     calls[i].outcome \in {"exit_nonzero", "unavailable"})

(* The user left bash with a status other than zero and is put into sh. *)
C33_SecondSession ==
    /\ Interactive
    /\ \E i \in SessionsOf("/bin/bash") : calls[i].outcome = "exit_nonzero"
    /\ locals.i = 2 /\ pc = "ix_attached"
    /\ session.state = "attached"

AllReturned == \A p \in Procs : pc[p] = "done"

LastWriter == calls[Len(calls)]

(* Both processes registered, under different names, and both returned    *)
(* success.                                                               *)
TwoRegistered ==
    /\ AllReturned
    /\ \A p \in Procs : cmd[p].op = "register" /\ result[p] = "Ok"
    /\ cmd[1].name # cmd[2].name

Registered(p) == MapGet(load_registry(file).reg, cmd[p].name) = {cmd[p].path}

(* C34: without locking the last writer wins: when both processes have    *)
(* returned, the file is the registry the last writer loaded with its own *)
(* change and nothing of what the other wrote in between; two registers   *)
(* of different names run one after the other leave both entries.         *)
C34_LastWriterWins ==
    /\ (AllReturned /\ calls # <<>>) => file = save_registry(locals[LastWriter].reg)
    /\ TwoRegistered =>
          /\ Registered(LastWriter)
          /\ \A o \in Procs \ {LastWriter} :
                o \in locals[LastWriter].after => Registered(o)

(* Two registers of different names both returned success and the file    *)
(* has only the entry of the last writer.                                 *)
C34_Witness ==
    /\ TwoRegistered
    /\ Registered(LastWriter)
    /\ \E o \in Procs \ {LastWriter} : ~Registered(o)

(* Run one after the other, both entries are in the file. *)
C34_WitnessSequential ==
    /\ TwoRegistered
    /\ \E o \in Procs \ {LastWriter} : o \in locals[LastWriter].after
    /\ \A p \in Procs : Registered(p)

(* The contents a process can find when every write is atomic: a file     *)
(* that is not there yet, or the JSON of a registry.                      *)
Complete(f) == f.kind \in {"missing", "text"}

(* C35: a process that reads the registry file while another process      *)
(* writes it finds the complete content before the write or the complete  *)
(* content after it, never an empty or partly written file, and so never  *)
(* fails with a corrupt registry because of the write.                    *)
C35_AtomicRewrite ==
    \A p \in Procs :
        /\ pc[p] \notin {"idle", "load"} => Complete(locals[p].seen)
        /\ result[p] # "Corrupt"

(* A lookup read the file while the other process had emptied it and      *)
(* failed.                                                                *)
C35_ReaderFails ==
    \E p \in Procs :
        /\ cmd[p].op = "lookup"
        /\ pc[p] = "done" /\ result[p] = "Corrupt"
        /\ locals[p].seen = FileTruncated
        /\ \E q \in Procs \ {p} : pc[q] = "write"

Attaching == cmd.op = "attach"

ExecCalls == At("enable_raw_mode") \cup At("create_exec") \cup At("docker exec -it")

ReportedRunning ==
    \E i \in At("is_container_running") : calls[i].outcome = "ok" /\ calls[i].arg = "true"

(* C36: attach on a container that is Absent, or that exists and does not *)
(* run, fails with an error without creating an exec and without changing *)
(* the terminal mode; an interactive exec is created only after the state *)
(* query has reported the container Running.                              *)
C36_AttachPrecondition ==
    Attaching =>
        /\ ExecCalls # {} =>
              /\ ReportedRunning
              /\ \A i \in ExecCalls : \E j \in At("is_container_running") : j < i
        /\ (Resolved /\ start0[locals.container] # "Running") =>
              /\ ExecCalls = {} /\ terminal = "cooked"
              /\ session.state = "none"
              /\ pc = "done" => result = "Err"

(* attach on a Stopped container: both queries, then the error. *)
C36_Witness ==
    /\ Attaching /\ Resolved /\ pc = "done"
    /\ start0[locals.container] = "Stopped"
    /\ CallNames = <<"container_exists", "is_container_running">>
    /\ \A i \in DOMAIN calls : calls[i].outcome = "ok"
    /\ result = "Err"
    /\ terminal = "cooked"

(* attach on an Absent container: one query, then the error. *)
C36_WitnessAbsent ==
    /\ Attaching /\ Resolved /\ pc = "done"
    /\ start0[locals.container] = "Absent"
    /\ CallNames = <<"container_exists">>
    /\ calls[1].outcome = "ok"
    /\ result = "Err"

(* attach on a Running container got its shell. *)
C36_WitnessAttached ==
    /\ Attaching /\ pc = "done" /\ result = "Ok"
    /\ ReportedRunning /\ ExecCalls # {}

(* The calls into the container runtime among the logged calls. *)
RuntimeCalls == {i \in DOMAIN calls : calls[i].fn # "cmd_start"}

(* C37: a command invoked with the name n makes every runtime call on the *)
(* container devenv-n; the container that restart stops is the one its    *)
(* start sequence starts, whatever name the project's config holds.       *)
C37_ContainerIdentity ==
    (cmd.op \in {"restart", "start"} /\ cmd.name # {})
        => \A i \in RuntimeCalls : calls[i].target = Target(cmd.name)

(* The same holds when the config names the environment as the command    *)
(* does.                                                                  *)
C37_IdentitySameName ==
    (cmd.op \in {"restart", "start"} /\ cmd.name # {}
         /\ \A c \in config : ContainerName(c.name) = Target(cmd.name))
        => \A i \in RuntimeCalls : calls[i].target = Target(cmd.name)

(* restart stopped the container of its name and started another one. *)
C37_StoppedOneStartedOther ==
    /\ cmd.op = "restart" /\ cmd.name # {}
    /\ \E i \in At("stop") : calls[i].target = Target(cmd.name) /\ calls[i].outcome = "ok"
    /\ \E j \in At("start") \cup At("run_detached") :
          calls[j].target # Target(cmd.name) /\ calls[j].outcome = "ok"
    /\ pc = "done" /\ result = "Ok"

C38_WitnessBuilt ==
    /\ cmd.op = "start" /\ ~cmd.no_build
    /\ At("build") = {1} /\ calls[1].outcome = "ok"
    /\ At("start") # {} /\ result = "Ok"

(* A start with --no-build that started the container. *)
C38_WitnessNoBuild ==
    /\ cmd.op = "start" /\ cmd.no_build
    /\ At("start") # {} /\ result = "Ok"

(* The stop or remove call of the remove in progress failed. *)
RemoveStepFailed ==
    \E i \in At("stop") \cup At("remove") : calls[i].outcome # "ok"

C39_WitnessStopFailed ==
    /\ cmd.op = "remove"
    /\ \E i \in At("stop") : calls[i].outcome # "ok"
    /\ result = "Err"
    /\ lookup_env(file, EnvName).res = "Ok"

(* A remove that removed the container and then dropped the name. *)
C39_WitnessUnregistered ==
    /\ cmd.op = "remove"
    /\ \E i \in At("remove") : calls[i].outcome = "ok"
    /\ At("unregister_env") # {}
    /\ result = "Ok"
    /\ calls[Len(calls)].arg = "Ok(true)"
    /\ lookup_env(file, EnvName).res = "NotFound"

====
